---- MODULE Spec2Model ----
(***************************************************************************)
(* A model of ternarybob/ravendb: the DatabaseService and the generic      *)
(* CollectionService[T] CRUD handlers, the free generic query functions,   *)
(* and the document-store session they drive.                              *)
(*                                                                         *)
(* The store is a mapping from document id to document.  Every handler     *)
(* opens one session, queues its work on it and commits with SaveChanges.  *)
(* Handlers are operators from (store, inputs, fault) to an outcome; the   *)
(* actions apply them and record the call in `last`.                       *)
(***************************************************************************)
EXTENDS Integers, Sequences, FiniteSets, TLC

VARIABLES
    db,          \* the server side store: id -> document (NoDoc when absent)
    hilo,        \* number of identities the client has generated so far
    last,        \* the call being returned: operation, inputs, the store
                 \* before it, the client calls it made, outcome; Idle
                 \* between calls
    sessions,    \* number of sessions that are open
    created,     \* whether the configured database exists on the server
    upd          \* the DatabaseService.Update calls in progress, per caller

vars == <<db, hilo, last, sessions, created, upd>>

(***************************************************************************)
(* Bounds of the model.                                                    *)
(***************************************************************************)
MaxGen == 1      \* identities the client may generate in one run
MaxSkip == 1     \* largest Skip a caller passes

(***************************************************************************)
(* Program constants.                                                      *)
(***************************************************************************)
DefaultTake == 25
MaxTake == 1024
QueryAllTake == 1024

(***************************************************************************)
(* Documents.  T is TestUser; the client derives the collection tag of a   *)
(* stored entity from its Go type name, never from cs.collection.          *)
(***************************************************************************)
Fields == {"name", "age"}
Names == {"John", "Jane"}
Ages == {30, 31}
FieldValues(f) == IF f = "name" THEN Names ELSE Ages

John30 == [name |-> "John", age |-> 30]
John31 == [name |-> "John", age |-> 31]
Jane31 == [name |-> "Jane", age |-> 31]
Values == {John30, John31, Jane31}

TypeCollection == "TestUsers"
CollectionNames == {"Users", "TestUsers"}

NoDoc == [coll |-> "", fields |-> <<>>]
MkDoc(v) == [coll |-> TypeCollection, fields |-> v]

CallerIds == {"", "users/1", "users/2"}
GenId(n) == "TestUsers/" \o ToString(n) \o "-A"
GenIds == {GenId(n) : n \in 1..MaxGen}
AllIds == CallerIds \cup GenIds

(***************************************************************************)
(* The session: a unit of work.  StoreWithID and Delete queue changes,     *)
(* Load reads the store, SaveChanges applies the queued changes at once.   *)
(* An empty id makes the client generate the identity.                     *)
(***************************************************************************)
NewSession(h) == [puts |-> <<>>, dels |-> {}, hilo |-> h]

\* store.OpenSession and session.Close, on the number of open sessions
OpenSession(n, fault) == IF fault = "open" THEN n ELSE n + 1
Close(n) == n - 1

\* Scoped closing the session only on the successful return
Scoped_LeaksOnError(n, fault) ==
    IF fault = "open" THEN OpenSession(n, fault)
    ELSE IF fault = "none" THEN Close(OpenSession(n, fault))
    ELSE OpenSession(n, fault)

\* the open sessions a handler leaves: it opens one, returns at once when
\* that fails, and otherwise defers Close to whichever return it takes
Scoped(n, fault) ==
    IF fault = "open" THEN OpenSession(n, fault)
    ELSE Close(OpenSession(n, fault))

PutAt(puts, id, doc) ==
    [i \in (DOMAIN puts) \cup {id} |-> IF i = id THEN doc ELSE puts[i]]

SessionStoreWithID(s, doc, id) ==
    IF id # ""
    THEN [s EXCEPT !.puts = PutAt(s.puts, id, doc)]
    ELSE [s EXCEPT !.puts = PutAt(s.puts, GenId(s.hilo + 1), doc),
                   !.hilo = s.hilo + 1]

SessionStore(s, doc) == SessionStoreWithID(s, doc, "")

SessionLoad(d, id) == d[id]

SessionDelete(s, id) == [s EXCEPT !.dels = s.dels \cup {id}]

SaveChanges(d, s) ==
    [i \in DOMAIN d |->
        IF i \in s.dels THEN NoDoc
        ELSE IF i \in DOMAIN s.puts THEN s.puts[i]
        ELSE d[i]]

(***************************************************************************)
(* Outcome of a handler: the store and identity counter it leaves, its     *)
(* error ("none" on success), whether SaveChanges committed, its value.    *)
(***************************************************************************)
Outcome(d, h, err, saved, val) ==
    [db |-> d, hilo |-> h, err |-> err, saved |-> saved, val |-> val]

Failed(d, h, err) == Outcome(d, h, err, FALSE, NoDoc)

Commit(d, s, fault) ==
    IF fault = "save"
    THEN Failed(d, s.hilo, "save")
    ELSE Outcome(SaveChanges(d, s), s.hilo, "none", TRUE, NoDoc)

(***************************************************************************)
(* Folding a handler's loop over a list of ids or the keys of a map.       *)
(***************************************************************************)
RECURSIVE StoreAll(_, _, _)
StoreAll(s, documents, keys) ==
    IF keys = {} THEN s
    ELSE LET id == CHOOSE k \in keys : TRUE
         IN  StoreAll(IF id # ""
                      THEN SessionStoreWithID(s, MkDoc(documents[id]), id)
                      ELSE SessionStore(s, MkDoc(documents[id])),
                      documents, keys \ {id})

RECURSIVE DeleteAll(_, _)
DeleteAll(s, ids) ==
    IF ids = <<>> THEN s
    ELSE DeleteAll(SessionDelete(s, Head(ids)), Tail(ids))

RECURSIVE DeleteLoaded(_, _, _)
DeleteLoaded(d, s, ids) ==
    IF ids = <<>> THEN s
    ELSE DeleteLoaded(d,
                      IF SessionLoad(d, Head(ids)) # NoDoc
                      THEN SessionDelete(s, Head(ids))
                      ELSE s,
                      Tail(ids))

\* the loop of LoadMultipleByIDs: each id is loaded in turn, a nil document
\* is skipped, the others are appended in the order of the list
RECURSIVE LoadAll(_, _)
LoadAll(d, ids) ==
    IF ids = <<>> THEN <<>>
    ELSE (IF SessionLoad(d, Head(ids)) # NoDoc
          THEN <<SessionLoad(d, Head(ids))>>
          ELSE <<>>) \o LoadAll(d, Tail(ids))

\* Merge replacing the loaded document by the updates
Merge_Replace(fields, updates) == updates

Merge(fields, updates) ==
    [k \in (DOMAIN fields) \cup (DOMAIN updates) |->
        IF k \in DOMAIN updates THEN updates[k] ELSE fields[k]]

(***************************************************************************)
(* DatabaseService: the untyped handlers.                                  *)
(***************************************************************************)
\* DS_Store returning before SaveChanges
DS_Store_NoSave(d, h, id, document, fault) ==
    IF fault = "open" THEN Failed(d, h, "open")
    ELSE IF fault = "store" THEN Failed(d, h, "store")
    ELSE Outcome(d, h, "none", FALSE, NoDoc)

DS_Store(d, h, id, document, fault) ==
    IF fault = "open" THEN Failed(d, h, "open")
    ELSE IF fault = "store" THEN Failed(d, h, "store")
    ELSE LET s == IF id # ""
                  THEN SessionStoreWithID(NewSession(h), MkDoc(document), id)
                  ELSE SessionStore(NewSession(h), MkDoc(document))
         IN  Commit(d, s, fault)

\* DS_StoreMultiple committing the documents stored before the failing one
DS_StoreMultiple_CommitsPartial(d, h, documents, fault) ==
    IF fault = "open" THEN Failed(d, h, "open")
    ELSE IF fault = "store" /\ DOMAIN documents # {}
    THEN LET bad == CHOOSE k \in DOMAIN documents : TRUE
             s == StoreAll(NewSession(h), documents, DOMAIN documents \ {bad})
         IN  Outcome(SaveChanges(d, s), s.hilo, "store", FALSE, NoDoc)
    ELSE Commit(d, StoreAll(NewSession(h), documents, DOMAIN documents), fault)

\* a store that fails in the loop returns before SaveChanges: the session,
\* with the documents stored so far, is dropped
DS_StoreMultiple(d, h, documents, fault) ==
    IF fault = "open" THEN Failed(d, h, "open")
    ELSE IF fault = "store" /\ DOMAIN documents # {} THEN Failed(d, h, "store")
    ELSE Commit(d, StoreAll(NewSession(h), documents, DOMAIN documents), fault)

DS_LoadByID(d, h, id, fault) ==
    IF fault = "open" THEN Failed(d, h, "open")
    ELSE IF fault = "load" THEN Failed(d, h, "load")
    ELSE Outcome(d, h, "none", FALSE, SessionLoad(d, id))

\* DS_LoadMultipleByIDs appending an empty document for an id that has none
DS_LoadMultipleByIDs_KeepsNil(d, h, ids, results, fault) ==
    IF fault = "open" THEN Outcome(d, h, "open", FALSE, results)
    ELSE IF fault = "load" /\ ids # <<>> THEN Outcome(d, h, "load", FALSE, results)
    ELSE Outcome(d, h, "none", FALSE,
                 results \o [k \in 1..Len(ids) |-> SessionLoad(d, ids[k])])

\* results is the caller's collection: the loaded documents are appended to
\* what it holds, and it is written back only on the successful return
DS_LoadMultipleByIDs(d, h, ids, results, fault) ==
    IF fault = "open" THEN Outcome(d, h, "open", FALSE, results)
    ELSE IF fault = "load" /\ ids # <<>> THEN Outcome(d, h, "load", FALSE, results)
    ELSE Outcome(d, h, "none", FALSE, results \o LoadAll(d, ids))

\* DS_Update without the nil check on the loaded document
DS_Update_NoNilCheck(d, h, id, updates, fault) ==
    IF fault = "open" THEN Failed(d, h, "open")
    ELSE IF fault = "load" THEN Failed(d, h, "load")
    ELSE IF fault = "store" THEN Failed(d, h, "store")
    ELSE Commit(d,
                SessionStoreWithID(NewSession(h),
                    [coll |-> TypeCollection,
                     fields |-> Merge(SessionLoad(d, id).fields, updates)], id),
                fault)

DS_Update(d, h, id, updates, fault) ==
    IF fault = "open" THEN Failed(d, h, "open")
    ELSE IF fault = "load" THEN Failed(d, h, "load")
    ELSE LET document == SessionLoad(d, id)
         IN  IF document = NoDoc THEN Failed(d, h, "notfound")
             ELSE IF fault = "store" THEN Failed(d, h, "store")
             ELSE Commit(d,
                         SessionStoreWithID(NewSession(h),
                             [document EXCEPT !.fields = Merge(@, updates)], id),
                         fault)

\* DS_Delete returning before SaveChanges
DS_Delete_NoSave(d, h, id, fault) ==
    IF fault = "open" THEN Failed(d, h, "open")
    ELSE Outcome(d, h, "none", FALSE, NoDoc)

DS_Delete(d, h, id, fault) ==
    IF fault = "open" THEN Failed(d, h, "open")
    ELSE Commit(d, SessionDelete(NewSession(h), id), fault)

DS_DeleteMultiple(d, h, ids, fault) ==
    IF fault = "open" THEN Failed(d, h, "open")
    ELSE Commit(d, DeleteAll(NewSession(h), ids), fault)

DS_Exists(d, h, id, fault) ==
    IF fault = "open" THEN Outcome(d, h, "open", FALSE, FALSE)
    ELSE IF fault = "load" THEN Outcome(d, h, "load", FALSE, FALSE)
    ELSE Outcome(d, h, "none", FALSE, SessionLoad(d, id) # NoDoc)

(***************************************************************************)
(* CollectionService[T]: the typed handlers.  None of them reads           *)
(* cs.collection; only the query handlers do.                              *)
(***************************************************************************)
CS_Store(d, h, id, document, fault) ==
    IF fault = "open" THEN Failed(d, h, "open")
    ELSE IF fault = "store" THEN Failed(d, h, "store")
    ELSE LET s == IF id # ""
                  THEN SessionStoreWithID(NewSession(h), MkDoc(document), id)
                  ELSE SessionStore(NewSession(h), MkDoc(document))
         IN  Commit(d, s, fault)

CS_StoreMultiple(d, h, documents, fault) ==
    IF fault = "open" THEN Failed(d, h, "open")
    ELSE IF fault = "store" /\ DOMAIN documents # {} THEN Failed(d, h, "store")
    ELSE Commit(d, StoreAll(NewSession(h), documents, DOMAIN documents), fault)

\* CS_LoadByID storing an empty document under an id that holds none
CS_LoadByID_Creates(d, h, id, fault) ==
    IF fault = "open" THEN Failed(d, h, "open")
    ELSE IF fault = "load" THEN Failed(d, h, "load")
    ELSE IF SessionLoad(d, id) = NoDoc /\ id # ""
    THEN Commit(d, SessionStoreWithID(NewSession(h), MkDoc(<<>>), id), fault)
    ELSE Outcome(d, h, "none", FALSE, SessionLoad(d, id))

CS_LoadByID(d, h, id, fault) ==
    IF fault = "open" THEN Failed(d, h, "open")
    ELSE IF fault = "load" THEN Failed(d, h, "load")
    ELSE Outcome(d, h, "none", FALSE, SessionLoad(d, id))

CS_LoadMultipleByIDs(d, h, ids, fault) ==
    IF fault = "open" THEN Outcome(d, h, "open", FALSE, <<>>)
    ELSE IF fault = "load" /\ ids # <<>> THEN Outcome(d, h, "load", FALSE, <<>>)
    ELSE Outcome(d, h, "none", FALSE, LoadAll(d, ids))

\* CS_Update refusing an id that holds no document
CS_Update_Strict(d, h, id, document, fault) ==
    IF fault = "open" THEN Failed(d, h, "open")
    ELSE IF SessionLoad(d, id) = NoDoc THEN Failed(d, h, "notfound")
    ELSE IF fault = "store" THEN Failed(d, h, "store")
    ELSE Commit(d, SessionStoreWithID(NewSession(h), MkDoc(document), id), fault)

CS_Update(d, h, id, document, fault) ==
    IF fault = "open" THEN Failed(d, h, "open")
    ELSE IF fault = "store" THEN Failed(d, h, "store")
    ELSE Commit(d, SessionStoreWithID(NewSession(h), MkDoc(document), id), fault)

\* CS_Delete deleting by id without loading the document first
CS_Delete_NoNilCheck(d, h, id, fault) ==
    IF fault = "open" THEN Failed(d, h, "open")
    ELSE IF fault = "load" THEN Failed(d, h, "load")
    ELSE Commit(d, SessionDelete(NewSession(h), id), fault)

CS_Delete(d, h, id, fault) ==
    IF fault = "open" THEN Failed(d, h, "open")
    ELSE IF fault = "load" THEN Failed(d, h, "load")
    ELSE IF SessionLoad(d, id) = NoDoc THEN Failed(d, h, "notfound")
    ELSE Commit(d, SessionDelete(NewSession(h), id), fault)

\* CS_DeleteMultiple failing on the first id that holds no document
CS_DeleteMultiple_Strict(d, h, ids, fault) ==
    IF fault = "open" THEN Failed(d, h, "open")
    ELSE IF fault = "load" /\ ids # <<>> THEN Failed(d, h, "load")
    ELSE IF \E k \in 1..Len(ids) : SessionLoad(d, ids[k]) = NoDoc
    THEN Failed(d, h, "notfound")
    ELSE Commit(d, DeleteLoaded(d, NewSession(h), ids), fault)

CS_DeleteMultiple(d, h, ids, fault) ==
    IF fault = "open" THEN Failed(d, h, "open")
    ELSE IF fault = "load" /\ ids # <<>> THEN Failed(d, h, "load")
    ELSE Commit(d, DeleteLoaded(d, NewSession(h), ids), fault)

CS_Exists(d, h, id, fault) ==
    IF fault = "open" THEN Outcome(d, h, "open", FALSE, FALSE)
    ELSE IF fault = "load" THEN Outcome(d, h, "load", FALSE, FALSE)
    ELSE Outcome(d, h, "none", FALSE, SessionLoad(d, id) # NoDoc)

(***************************************************************************)
(* The query engine behind session.Advanced().RawQuery(...).GetResults:    *)
(* it reads the query text, binds the named parameters, filters the store, *)
(* orders the rows and applies the limit.  Text it cannot read, a          *)
(* placeholder with no bound parameter, or a bad limit is a query error.   *)
(***************************************************************************)
StartsWith(s, p) == Len(s) >= Len(p) /\ SubSeq(s, 1, Len(p)) = p
Drop(s, n) == SubSeq(s, n + 1, Len(s))

ParamNames == {"value", "minValue", "maxValue", "searchTerm0", "searchTerm1", "p"}
CmpOps == {"=", ">=", "<="}

Atoms ==
    [kind : {"cmp"}, field : Fields, op : CmpOps, param : ParamNames]
    \cup [kind : {"search"}, field : Fields, op : {"search"}, param : ParamNames]

AtomText(a) ==
    IF a.kind = "cmp"
    THEN a.field \o " " \o a.op \o " $" \o a.param
    ELSE "search(" \o a.field \o ", $" \o a.param \o ")"

AtomTexts == {AtomText(a) : a \in Atoms}
AtomTable == [t \in AtomTexts |-> CHOOSE a \in Atoms : AtomText(a) = t]

BadWhere == [ok |-> FALSE, conn |-> "and", atoms |-> <<>>]

RECURSIVE ParseOrList(_)
ParseOrList(t) ==
    IF t \in AtomTexts THEN <<AtomTable[t]>>
    ELSE LET cuts == {i \in 1..(Len(t) - 3) :
                        /\ SubSeq(t, i, i + 3) = " OR "
                        /\ SubSeq(t, 1, i - 1) \in AtomTexts}
         IN  IF cuts = {} THEN <<>>
             ELSE LET i == CHOOSE c \in cuts : TRUE
                      rest == ParseOrList(Drop(t, i + 3))
                  IN  IF rest = <<>> THEN <<>>
                      ELSE <<AtomTable[SubSeq(t, 1, i - 1)]>> \o rest

ParseWhere(t) ==
    IF t \in AtomTexts
    THEN [ok |-> TRUE, conn |-> "and", atoms |-> <<AtomTable[t]>>]
    ELSE IF Len(t) >= 2 /\ SubSeq(t, 1, 1) = "(" /\ SubSeq(t, Len(t), Len(t)) = ")"
    THEN LET atoms == ParseOrList(SubSeq(t, 2, Len(t) - 1))
         IN  IF atoms = <<>> THEN BadWhere
             ELSE [ok |-> TRUE, conn |-> "or", atoms |-> atoms]
    ELSE LET cuts == {i \in 1..(Len(t) - 4) :
                        /\ SubSeq(t, i, i + 4) = " AND "
                        /\ SubSeq(t, 1, i - 1) \in AtomTexts
                        /\ Drop(t, i + 4) \in AtomTexts}
         IN  IF cuts = {} THEN BadWhere
             ELSE LET i == CHOOSE c \in cuts : TRUE
                  IN  [ok |-> TRUE, conn |-> "and",
                       atoms |-> <<AtomTable[SubSeq(t, 1, i - 1)],
                                   AtomTable[Drop(t, i + 4)]>>]

Lower(v) == IF v = "John" THEN "john" ELSE "jane"

AtomHolds(a, params, fields) ==
    LET x == fields[a.field]
        y == params[a.param]
    IN  CASE a.op = "="  -> x = y
          [] a.op = ">=" -> x >= y
          [] a.op = "<=" -> x <= y
          [] OTHER       -> a.field = "name" /\ Lower(x) = y

WhereHolds(w, params, fields) ==
    IF w.conn = "and"
    THEN \A k \in 1..Len(w.atoms) : AtomHolds(w.atoms[k], params, fields)
    ELSE \E k \in 1..Len(w.atoms) : AtomHolds(w.atoms[k], params, fields)

Digit(c) ==
    CASE c = "0" -> 0 [] c = "1" -> 1 [] c = "2" -> 2 [] c = "3" -> 3
      [] c = "4" -> 4 [] c = "5" -> 5 [] c = "6" -> 6 [] c = "7" -> 7
      [] c = "8" -> 8 [] c = "9" -> 9 [] OTHER -> -1

RECURSIVE ParseNat(_, _)
ParseNat(t, acc) ==
    IF t = "" THEN acc
    ELSE IF Digit(SubSeq(t, 1, 1)) < 0 THEN -1
    ELSE ParseNat(Drop(t, 1), 10 * acc + Digit(SubSeq(t, 1, 1)))

\* -1 when t is not a non-negative decimal number
ParseNumber(t) == IF t = "" THEN -1 ELSE ParseNat(t, 0)

QueryPrefix == "from @all_docs where @metadata.'@collection' = '"

BadQuery ==
    [ok |-> FALSE, coll |-> "", where |-> BadWhere, filtered |-> FALSE,
     orderBy |-> "", desc |-> FALSE, limited |-> FALSE, skip |-> 0, take |-> 0]

ClauseStart(r) ==
    r = "" \/ StartsWith(r, " ORDER BY ") \/ StartsWith(r, " LIMIT ")

ParseLimit(q, r) ==
    IF r = "" THEN q
    ELSE IF ~StartsWith(r, " LIMIT ") THEN BadQuery
    ELSE LET t == Drop(r, 7)
             cuts == {i \in 1..(Len(t) - 1) : SubSeq(t, i, i + 1) = ", "}
         IN  IF cuts = {} THEN BadQuery
             ELSE LET i == CHOOSE c \in cuts : TRUE
                      skip == ParseNumber(SubSeq(t, 1, i - 1))
                      take == ParseNumber(Drop(t, i + 1))
                  IN  IF skip < 0 \/ take < 0 THEN BadQuery
                      ELSE [q EXCEPT !.limited = TRUE, !.skip = skip, !.take = take]

ParseOrder(q, r) ==
    IF ~StartsWith(r, " ORDER BY ") THEN ParseLimit(q, r)
    ELSE LET fs == {f \in Fields :
                      /\ StartsWith(r, " ORDER BY " \o f)
                      /\ LET r2 == Drop(r, Len(" ORDER BY " \o f))
                         IN  r2 = "" \/ StartsWith(r2, " ")}
         IN  IF fs = {} THEN BadQuery
             ELSE LET f == CHOOSE x \in fs : TRUE
                      r2 == Drop(r, Len(" ORDER BY " \o f))
                  IN  IF StartsWith(r2, " DESC")
                      THEN ParseLimit([q EXCEPT !.orderBy = f, !.desc = TRUE],
                                      Drop(r2, 5))
                      ELSE ParseLimit([q EXCEPT !.orderBy = f], r2)

ParseFilter(q, r) ==
    IF ~StartsWith(r, " AND (") THEN ParseOrder(q, r)
    ELSE LET ends == {j \in 7..Len(r) :
                        /\ SubSeq(r, j, j) = ")"
                        /\ ClauseStart(Drop(r, j))
                        /\ ParseWhere(SubSeq(r, 7, j - 1)).ok}
         IN  IF ends = {} THEN BadQuery
             ELSE LET j == CHOOSE e \in ends : TRUE
                  IN  ParseOrder([q EXCEPT !.filtered = TRUE,
                                           !.where = ParseWhere(SubSeq(r, 7, j - 1))],
                                 Drop(r, j))

ParseQuery(rql) ==
    LET cs == {c \in CollectionNames : StartsWith(rql, QueryPrefix \o c \o "'")}
    IN  IF cs = {} THEN BadQuery
        ELSE LET c == CHOOSE x \in cs : TRUE
             IN  ParseFilter([BadQuery EXCEPT !.ok = TRUE, !.coll = c],
                             Drop(rql, Len(QueryPrefix \o c \o "'")))

IdOrder == <<"users/1", "users/2">> \o [n \in 1..MaxGen |-> GenId(n)]
AgeOrder == <<30, 31>>
NameOrder == <<"Jane", "John">>
FieldOrder(f) == IF f = "name" THEN NameOrder ELSE AgeOrder

Reverse(s) == [k \in 1..Len(s) |-> s[Len(s) + 1 - k]]

RECURSIVE OrderRows(_, _, _, _)
OrderRows(d, ids, f, vals) ==
    IF vals = <<>> THEN <<>>
    ELSE SelectSeq(ids, LAMBDA i : d[i].fields[f] = Head(vals))
         \o OrderRows(d, ids, f, Tail(vals))

Min(a, b) == IF a <= b THEN a ELSE b

Row(d, i) == [id |-> i, coll |-> d[i].coll, fields |-> d[i].fields]

\* F applied to the value of v
With(v, F(_)) == CHOOSE r \in {F(x) : x \in {v}} : TRUE

Matching(d, q, params) ==
    SelectSeq(IdOrder, LAMBDA i :
        /\ d[i] # NoDoc
        /\ d[i].coll = q.coll
        /\ (q.filtered => WhereHolds(q.where, params, d[i].fields)))

Ordered(d, q, matching) ==
    IF q.orderBy = "" THEN matching
    ELSE OrderRows(d, matching, q.orderBy,
                   IF q.desc THEN Reverse(FieldOrder(q.orderBy))
                   ELSE FieldOrder(q.orderBy))

Page(q, ordered) ==
    IF q.limited
    THEN SubSeq(ordered, q.skip + 1, Min(Len(ordered), q.skip + q.take))
    ELSE ordered

Answer(d, q, params) ==
    IF ~q.ok THEN [err |-> "query", rows |-> <<>>]
    ELSE IF q.filtered
            /\ \E k \in 1..Len(q.where.atoms) :
                  q.where.atoms[k].param \notin DOMAIN params
    THEN [err |-> "query", rows |-> <<>>]
    ELSE With(Matching(d, q, params), LAMBDA matching :
         With(Ordered(d, q, matching), LAMBDA ordered :
         With(Page(q, ordered), LAMBDA page :
             [err |-> "none", rows |-> [k \in 1..Len(page) |-> Row(d, page[k])]])))

ExecuteQuery(d, rql, params) ==
    With(ParseQuery(rql), LAMBDA q : Answer(d, q, params))

(***************************************************************************)
(* QueryOptions and the result envelope.  A nil options pointer is the     *)
(* zero options value with nil set; a nil Parameters map is the empty map. *)
(***************************************************************************)
ZeroOptions ==
    [nil |-> FALSE, Skip |-> 0, Take |-> 0, OrderBy |-> "", OrderDesc |-> FALSE,
     WhereClause |-> "", Parameters |-> <<>>, IncludeTotal |-> FALSE]
NilOptions == [ZeroOptions EXCEPT !.nil = TRUE]

NoResult ==
    [Results |-> <<>>, TotalCount |-> 0, Skip |-> 0, Take |-> 0, HasMore |-> FALSE]

\* what a query call leaves: its error, the query text it sent, the
\* parameters it bound, the caller's options object afterwards, its result
QOutcome(err, rql, params, opts, res) ==
    [err |-> err, saved |-> FALSE, rql |-> rql, params |-> params,
     opts |-> opts, res |-> res]

SetParam(params, k, v) ==
    [x \in (DOMAIN params) \cup {k} |-> IF x = k THEN v ELSE params[x]]

(***************************************************************************)
(* CollectionService[T].Query and the helpers that delegate to it.         *)
(***************************************************************************)
\* CS_NormalizeTake without the upper clamp
CS_NormalizeTake_NoClamp(o) ==
    IF o.Take <= 0 THEN [o EXCEPT !.Take = DefaultTake] ELSE o

CS_NormalizeTake(o) ==
    LET o1 == IF o.Take <= 0 THEN [o EXCEPT !.Take = DefaultTake] ELSE o
    IN  IF o1.Take > MaxTake THEN [o1 EXCEPT !.Take = MaxTake] ELSE o1

\* CS_BuildRQL writing DESC whenever OrderDesc is set
CS_BuildRQL_DescAlone(coll, o) ==
    "from @all_docs where @metadata.'@collection' = '" \o coll \o "'"
    \o (IF o.WhereClause # "" THEN " AND (" \o o.WhereClause \o ")" ELSE "")
    \o (IF o.OrderBy # "" THEN " ORDER BY " \o o.OrderBy ELSE "")
    \o (IF o.OrderDesc THEN " DESC" ELSE "")
    \o (IF o.Skip > 0 \/ o.Take > 0
        THEN " LIMIT " \o ToString(o.Skip) \o ", "
             \o ToString(IF o.Take <= 0 THEN DefaultTake ELSE o.Take)
        ELSE "")

CS_BuildRQL(coll, o) ==
    "from @all_docs where @metadata.'@collection' = '" \o coll \o "'"
    \o (IF o.WhereClause # "" THEN " AND (" \o o.WhereClause \o ")" ELSE "")
    \o (IF o.OrderBy # ""
        THEN IF o.OrderDesc THEN " ORDER BY " \o o.OrderBy \o " DESC"
                            ELSE " ORDER BY " \o o.OrderBy
        ELSE "")
    \o (IF o.Skip > 0 \/ o.Take > 0
        THEN " LIMIT " \o ToString(o.Skip) \o ", "
             \o ToString(IF o.Take <= 0 THEN DefaultTake ELSE o.Take)
        ELSE "")

\* CS_Envelope reporting more rows only when the page overflows Take
CS_Envelope_Strict(rows, o) ==
    [Results |-> rows, TotalCount |-> Len(rows), Skip |-> o.Skip, Take |-> o.Take,
     HasMore |-> (o.Take > 0 /\ Len(rows) > o.Take)]

CS_Envelope(rows, o) ==
    [Results |-> rows, TotalCount |-> Len(rows), Skip |-> o.Skip, Take |-> o.Take,
     HasMore |-> (o.Take > 0 /\ Len(rows) = o.Take)]

CS_Query(d, coll, options, fault) ==
    IF fault = "open" THEN QOutcome("open", "", <<>>, options, NoResult)
    ELSE LET o == CS_NormalizeTake(IF options.nil THEN ZeroOptions ELSE options)
             seen == IF options.nil THEN options ELSE o
             rql == CS_BuildRQL(coll, o)
             got == ExecuteQuery(d, rql, o.Parameters)
         IN  IF fault = "query" \/ got.err # "none"
             THEN QOutcome("query", rql, o.Parameters, seen, NoResult)
             ELSE QOutcome("none", rql, o.Parameters, seen, CS_Envelope(got.rows, o))

Seen(options, out) == IF options.nil THEN [out EXCEPT !.opts = options] ELSE out

CS_QueryAll(d, coll, fault) ==
    [CS_Query(d, coll, [ZeroOptions EXCEPT !.Skip = 0, !.Take = QueryAllTake], fault)
        EXCEPT !.opts = NilOptions]

CS_QueryByField(d, coll, fieldName, fieldValue, options, fault) ==
    LET o == IF options.nil THEN ZeroOptions ELSE options
    IN  Seen(options,
             CS_Query(d, coll,
                      [o EXCEPT !.WhereClause = fieldName \o " = $value",
                                !.Parameters = SetParam(@, "value", fieldValue)],
                      fault))

CS_QueryByRange(d, coll, fieldName, minValue, maxValue, options, fault) ==
    LET o == IF options.nil THEN ZeroOptions ELSE options
    IN  Seen(options,
             CS_Query(d, coll,
                      [o EXCEPT !.WhereClause = fieldName \o " >= $minValue AND "
                                                \o fieldName \o " <= $maxValue",
                                !.Parameters = SetParam(SetParam(@, "minValue", minValue),
                                                        "maxValue", maxValue)],
                      fault))

RECURSIVE CS_SearchConditions(_, _)
CS_SearchConditions(searchFields, i) ==
    IF i >= Len(searchFields) THEN <<>>
    ELSE <<"search(" \o searchFields[i + 1] \o ", $searchTerm" \o ToString(i) \o ")">>
         \o CS_SearchConditions(searchFields, i + 1)

\* CS_SearchParams binding the term to the first placeholder only
CS_SearchParams_FirstOnly(params, searchFields, searchTerm, i) ==
    IF searchFields = <<>> THEN params
    ELSE SetParam(params, "searchTerm0", searchTerm)

RECURSIVE CS_SearchParams(_, _, _, _)
CS_SearchParams(params, searchFields, searchTerm, i) ==
    IF i >= Len(searchFields) THEN params
    ELSE CS_SearchParams(SetParam(params, "searchTerm" \o ToString(i), searchTerm),
                         searchFields, searchTerm, i + 1)

RECURSIVE Join(_, _)
Join(parts, sep) ==
    IF parts = <<>> THEN ""
    ELSE IF Len(parts) = 1 THEN parts[1]
    ELSE parts[1] \o sep \o Join(Tail(parts), sep)

\* a Search that writes the search clause whatever the number of fields
CS_Search_AlwaysWhere(d, coll, searchTerm, searchFields, options, fault) ==
    LET o == IF options.nil THEN ZeroOptions ELSE options
        whereConditions == CS_SearchConditions(searchFields, 0)
        o1 == [o EXCEPT !.Parameters = CS_SearchParams(@, searchFields, searchTerm, 0)]
        o2 == [o1 EXCEPT !.WhereClause = "(" \o Join(whereConditions, " OR ") \o ")"]
    IN  Seen(options, CS_Query(d, coll, o2, fault))

CS_Search(d, coll, searchTerm, searchFields, options, fault) ==
    LET o == IF options.nil THEN ZeroOptions ELSE options
        whereConditions == CS_SearchConditions(searchFields, 0)
        o1 == [o EXCEPT !.Parameters = CS_SearchParams(@, searchFields, searchTerm, 0)]
        o2 == IF Len(whereConditions) > 0
              THEN [o1 EXCEPT !.WhereClause = "(" \o Join(whereConditions, " OR ") \o ")"]
              ELSE o1
    IN  Seen(options, CS_Query(d, coll, o2, fault))

(***************************************************************************)
(* The free generic functions Query[T], QueryAll[T], QueryByField[T],      *)
(* QueryByRange[T] and Search[T].                                          *)
(***************************************************************************)
\* Q_NormalizeTake clamping a large Take to 100
Q_NormalizeTake_Cap100(o) ==
    LET o1 == IF o.Take <= 0 THEN [o EXCEPT !.Take = DefaultTake] ELSE o
    IN  IF o1.Take > MaxTake THEN [o1 EXCEPT !.Take = 100] ELSE o1

Q_NormalizeTake(o) ==
    LET o1 == IF o.Take <= 0 THEN [o EXCEPT !.Take = DefaultTake] ELSE o
    IN  IF o1.Take > MaxTake THEN [o1 EXCEPT !.Take = MaxTake] ELSE o1

Q_BuildRQL(coll, o) ==
    "from @all_docs where @metadata.'@collection' = '" \o coll \o "'"
    \o (IF o.WhereClause # "" THEN " AND (" \o o.WhereClause \o ")" ELSE "")
    \o (IF o.OrderBy # ""
        THEN IF o.OrderDesc THEN " ORDER BY " \o o.OrderBy \o " DESC"
                            ELSE " ORDER BY " \o o.OrderBy
        ELSE "")
    \o (IF o.Skip > 0 \/ o.Take > 0
        THEN " LIMIT " \o ToString(o.Skip) \o ", "
             \o ToString(IF o.Take <= 0 THEN DefaultTake ELSE o.Take)
        ELSE "")

\* Q_Envelope reporting more rows only when the page overflows Take
Q_Envelope_Overflow(rows, o) ==
    [Results |-> rows, TotalCount |-> Len(rows), Skip |-> o.Skip, Take |-> o.Take,
     HasMore |-> (o.Take > 0 /\ Len(rows) > o.Take)]

Q_Envelope(rows, o) ==
    [Results |-> rows, TotalCount |-> Len(rows), Skip |-> o.Skip, Take |-> o.Take,
     HasMore |-> (o.Take > 0 /\ Len(rows) = o.Take)]

Query(d, coll, options, fault) ==
    IF fault = "open" THEN QOutcome("open", "", <<>>, options, NoResult)
    ELSE LET o == Q_NormalizeTake(IF options.nil THEN ZeroOptions ELSE options)
             seen == IF options.nil THEN options ELSE o
             rql == Q_BuildRQL(coll, o)
             got == ExecuteQuery(d, rql, o.Parameters)
         IN  IF fault = "query" \/ got.err # "none"
             THEN QOutcome("query", rql, o.Parameters, seen, NoResult)
             ELSE QOutcome("none", rql, o.Parameters, seen, Q_Envelope(got.rows, o))

QueryAll(d, coll, fault) ==
    [Query(d, coll, [ZeroOptions EXCEPT !.Skip = 0, !.Take = QueryAllTake], fault)
        EXCEPT !.opts = NilOptions]

\* QueryByField keeping a WhereClause the caller already set
QueryByField_KeepsWhere(d, coll, fieldName, fieldValue, options, fault) ==
    LET o == IF options.nil THEN ZeroOptions ELSE options
    IN  Seen(options,
             Query(d, coll,
                   [o EXCEPT !.WhereClause = IF @ = "" THEN fieldName \o " = $value"
                                             ELSE @,
                             !.Parameters = SetParam(@, "value", fieldValue)],
                   fault))

QueryByField(d, coll, fieldName, fieldValue, options, fault) ==
    LET o == IF options.nil THEN ZeroOptions ELSE options
    IN  Seen(options,
             Query(d, coll,
                   [o EXCEPT !.WhereClause = fieldName \o " = $value",
                             !.Parameters = SetParam(@, "value", fieldValue)],
                   fault))

\* QueryByRange binding its two parameters in a map of its own
QueryByRange_FreshParams(d, coll, fieldName, minValue, maxValue, options, fault) ==
    LET o == IF options.nil THEN ZeroOptions ELSE options
    IN  Seen(options,
             Query(d, coll,
                   [o EXCEPT !.WhereClause = fieldName \o " >= $minValue AND "
                                             \o fieldName \o " <= $maxValue",
                             !.Parameters = [minValue |-> minValue,
                                             maxValue |-> maxValue]],
                   fault))

QueryByRange(d, coll, fieldName, minValue, maxValue, options, fault) ==
    LET o == IF options.nil THEN ZeroOptions ELSE options
    IN  Seen(options,
             Query(d, coll,
                   [o EXCEPT !.WhereClause = fieldName \o " >= $minValue AND "
                                             \o fieldName \o " <= $maxValue",
                             !.Parameters = SetParam(SetParam(@, "minValue", minValue),
                                                     "maxValue", maxValue)],
                   fault))

RECURSIVE Q_SearchConditions(_, _)
Q_SearchConditions(searchFields, i) ==
    IF i >= Len(searchFields) THEN <<>>
    ELSE <<"search(" \o searchFields[i + 1] \o ", $searchTerm" \o ToString(i) \o ")">>
         \o Q_SearchConditions(searchFields, i + 1)

RECURSIVE Q_SearchParams(_, _, _, _)
Q_SearchParams(params, searchFields, searchTerm, i) ==
    IF i >= Len(searchFields) THEN params
    ELSE Q_SearchParams(SetParam(params, "searchTerm" \o ToString(i), searchTerm),
                        searchFields, searchTerm, i + 1)

Search(d, coll, searchTerm, searchFields, options, fault) ==
    LET o == IF options.nil THEN ZeroOptions ELSE options
        whereConditions == Q_SearchConditions(searchFields, 0)
        o1 == [o EXCEPT !.Parameters = Q_SearchParams(@, searchFields, searchTerm, 0)]
        o2 == IF Len(whereConditions) > 0
              THEN [o1 EXCEPT !.WhereClause = "(" \o Join(whereConditions, " OR ") \o ")"]
              ELSE o1
    IN  Seen(options, Query(d, coll, o2, fault))

(***************************************************************************)
(* DatabaseService.Update step by step, for callers running at once: open  *)
(* the session, load the document, merge and StoreWithID, SaveChanges.     *)
(* `loaded` keeps what the load returned and `stale` tells that another    *)
(* caller committed the same id after this caller's load.                  *)
(***************************************************************************)
Callers == {"a", "b"}

\* stale: another call committed the id since this one loaded it;
\* gone: the id has been deleted since and holds no document
UpdIdle ==
    [pc |-> "idle", id |-> "", updates |-> <<>>, loaded |-> NoDoc,
     document |-> NoDoc, stale |-> FALSE, gone |-> FALSE, err |-> "none"]

Upd_Open(id, updates) ==
    [UpdIdle EXCEPT !.pc = "opened", !.id = id, !.updates = updates]

Upd_Load(d, u) ==
    IF SessionLoad(d, u.id) = NoDoc
    THEN [u EXCEPT !.pc = "done", !.err = "notfound"]
    ELSE [u EXCEPT !.pc = "loaded", !.loaded = SessionLoad(d, u.id),
                   !.document = SessionLoad(d, u.id)]

Upd_Merge(u) ==
    [u EXCEPT !.pc = "stored", !.document.fields = Merge(@, u.updates)]

\* Upd_Save merging the updates into the document the store holds now
Upd_Save_Reloads(d, u) ==
    SaveChanges(d, SessionStoreWithID(NewSession(0),
                       [d[u.id] EXCEPT !.fields = Merge(@, u.updates)], u.id))

\* Upd_Save committing only when the id still holds a document
Upd_Save_IfPresent(d, u) ==
    IF d[u.id] = NoDoc THEN d
    ELSE SaveChanges(d, SessionStoreWithID(NewSession(0), u.document, u.id))

Upd_Save(d, u) ==
    SaveChanges(d, SessionStoreWithID(NewSession(0), u.document, u.id))

(***************************************************************************)
(* DatabaseService: connection, initialisation, status, counting; and      *)
(* CollectionService[T].Count.                                             *)
(***************************************************************************)
DatabaseName == "testdb"

\* Maintenance().Server().Send(CreateDatabaseOperation): the server creates
\* the database unless it exists already or the request fails
CreateDatabase(exists, fault) ==
    IF fault = "create" THEN [created |-> exists, err |-> "create"]
    ELSE IF exists THEN [created |-> TRUE, err |-> "conflict"]
    ELSE [created |-> TRUE, err |-> "none"]

\* DS_Init returning the error of the create request
DS_Init_Strict(exists, n, createFault, openFault) ==
    LET c == CreateDatabase(exists, createFault)
    IN  IF c.err # "none"
        THEN [created |-> c.created, sessions |-> n, err |-> c.err, logged |-> c.err]
        ELSE [created |-> c.created, sessions |-> Scoped(n, openFault),
              err |-> IF openFault = "open" THEN "open" ELSE "none", logged |-> c.err]

DS_Init(exists, n, createFault, openFault) ==
    LET c == CreateDatabase(exists, createFault)
    IN  [created |-> c.created, sessions |-> Scoped(n, openFault),
         err |-> IF openFault = "open" THEN "open" ELSE "none", logged |-> c.err]

\* the result of Send(GetStatisticsOperation) is nil or not; either way the
\* database is reported empty
isDatabaseEmpty(n, openFault, stats) ==
    IF openFault = "open"
    THEN [sessions |-> Scoped(n, openFault), val |-> FALSE, err |-> "open"]
    ELSE [sessions |-> Scoped(n, openFault), val |-> TRUE, err |-> "none"]

\* DS_InitializeWithSeeding returning the error of the emptiness check
DS_InitializeWithSeeding_Propagates(exists, n, seedData, createFault, openFault, emptyFault, stats) ==
    LET i == DS_Init(exists, n, createFault, openFault)
        e == isDatabaseEmpty(i.sessions, emptyFault, stats)
    IN  IF i.err # "none"
        THEN [created |-> i.created, sessions |-> i.sessions, err |-> "init", checked |-> FALSE]
        ELSE IF seedData
        THEN [created |-> i.created, sessions |-> e.sessions, err |-> e.err, checked |-> TRUE]
        ELSE [created |-> i.created, sessions |-> i.sessions, err |-> "none", checked |-> FALSE]

DS_InitializeWithSeeding(exists, n, seedData, createFault, openFault, emptyFault, stats) ==
    LET i == DS_Init(exists, n, createFault, openFault)
        e == isDatabaseEmpty(i.sessions, emptyFault, stats)
    IN  IF i.err # "none"
        THEN [created |-> i.created, sessions |-> i.sessions, err |-> "init", checked |-> FALSE]
        ELSE IF seedData
        THEN [created |-> i.created, sessions |-> e.sessions, err |-> "none", checked |-> TRUE]
        ELSE [created |-> i.created, sessions |-> i.sessions, err |-> "none", checked |-> FALSE]

DS_GetDatabaseStatus(n, openFault, stats) ==
    IF openFault = "open"
    THEN [sessions |-> Scoped(n, openFault), err |-> "open",
          status |-> [database_name |-> DatabaseName, status |-> "disconnected",
                      error |-> "open"]]
    ELSE IF stats = "nil"
    THEN [sessions |-> Scoped(n, openFault), err |-> "none",
          status |-> [database_name |-> DatabaseName, status |-> "connected",
                      session_active |-> TRUE,
                      statistics_error |-> "failed to get statistics"]]
    ELSE [sessions |-> Scoped(n, openFault), err |-> "none",
          status |-> [database_name |-> DatabaseName, status |-> "connected",
                      session_active |-> TRUE,
                      document_count |-> 0, index_count |-> 0]]

\* DS_CountDocuments counting the documents of the collection
DS_CountDocuments_Counts(d, n, collection, fault) ==
    IF fault = "open" THEN [sessions |-> Scoped(n, fault), err |-> "open", val |-> 0]
    ELSE [sessions |-> Scoped(n, fault), err |-> "none",
          val |-> Cardinality({i \in DOMAIN d : d[i] # NoDoc /\ d[i].coll = collection})]

DS_CountDocuments(d, n, collection, fault) ==
    IF fault = "open" THEN [sessions |-> Scoped(n, fault), err |-> "open", val |-> 0]
    ELSE [sessions |-> Scoped(n, fault), err |-> "none", val |-> 0]

\* CS_Count returning the number of documents whatever QueryAll said
CS_Count_Unchecked(d, coll, fault) ==
    With(CS_QueryAll(d, coll, fault), LAMBDA r :
        [err |-> "none", val |-> r.res.TotalCount, rql |-> r.rql])

CS_Count(d, coll, fault) ==
    With(CS_QueryAll(d, coll, fault), LAMBDA r :
        IF r.err # "none" THEN [err |-> "count", val |-> 0, rql |-> r.rql]
        ELSE [err |-> "none", val |-> r.res.TotalCount, rql |-> r.rql])

(***************************************************************************)
(* Inputs the callers pass.                                                *)
(***************************************************************************)
StoreFaults == {"none", "open", "store", "save"}
LoadFaults == {"none", "open", "load"}
UpdateFaults == {"none", "open", "load", "store", "save"}
DeleteFaults == {"none", "open", "save"}
LoadDeleteFaults == {"none", "open", "load", "save"}
QueryFaults == {"none", "open", "query"}

OpenFaults == {"none", "open"}
CreateFaults == {"none", "create"}
StatsResults == {"nil", "value"}

BatchValues == {John30, Jane31}
Batches ==
    {[i \in S |-> v] : S \in SUBSET CallerIds, v \in BatchValues}
    \cup {[i \in {"users/1", "users/2"} |-> IF i = "users/1" THEN John30 ELSE Jane31]}

\* what the caller's collection holds before DatabaseService.LoadMultipleByIDs
SuppliedResults == {<<>>, <<MkDoc(Jane31)>>}

Updates == {<<>>, [age |-> 31], [name |-> "John"], Jane31}

IdLists ==
    {<<>>} \cup {<<i>> : i \in CallerIds}
    \cup {<<"users/1", "users/2">>, <<"users/2", "users/2">>, <<"users/1", "">>}

TakeValues == {0, 2, 1024, 5000}

PagingOptions ==
    {[ZeroOptions EXCEPT !.Skip = s, !.Take = t] : s \in 0..MaxSkip, t \in TakeValues}
    \cup {[ZeroOptions EXCEPT !.Take = t] : t \in {-1, 1, 3}}
OrderOptions ==
    {[ZeroOptions EXCEPT !.Take = 2, !.OrderBy = f, !.OrderDesc = b] :
        f \in {"", "age"}, b \in BOOLEAN}
WhereOptions ==
    {[ZeroOptions EXCEPT !.Take = 1, !.WhereClause = "age = $p",
                         !.Parameters = [p \in {"p", "value"} |-> 31]],
     [ZeroOptions EXCEPT !.WhereClause = "age = $p", !.IncludeTotal = TRUE]}
QueryOptionsSet == {NilOptions} \cup PagingOptions \cup OrderOptions \cup WhereOptions

HelperOptions ==
    {NilOptions,
     [ZeroOptions EXCEPT !.Take = 1, !.WhereClause = "age = $p",
                         !.Parameters = [p \in {"p", "value"} |-> 31]],
     [ZeroOptions EXCEPT !.Skip = MaxSkip, !.Take = 5000, !.OrderBy = "age",
                         !.OrderDesc = TRUE]}

FieldQueries == {<<f, v>> : f \in {"name"}, v \in Names} \cup
                {<<f, v>> : f \in {"age"}, v \in Ages}
Ranges == Ages \X Ages
SearchTerms == {"john", "bob"}
SearchFieldLists == {<<>>, <<"name">>, <<"age", "name">>}

(***************************************************************************)
(* The client calls a handler makes, in order.  Every handler opens one    *)
(* session and returns at the first call that fails; the deferred Close    *)
(* runs on every return after a successful open.                           *)
(***************************************************************************)
Call(name, ok) == [call |-> name, ok |-> ok]

Times(name, n) == [k \in 1..n |-> name]

\* CollectionService.DeleteMultiple loads each id and deletes the loaded ones
RECURSIVE LoadDeleteSteps(_, _)
LoadDeleteSteps(d, ids) ==
    IF ids = <<>> THEN <<>>
    ELSE (IF SessionLoad(d, Head(ids)) # NoDoc THEN <<"load", "delete">>
          ELSE <<"load">>) \o LoadDeleteSteps(d, Tail(ids))

\* the calls between open and close when none of them fails
Steps(op, svc, in, d) ==
    CASE op = "Store" -> <<"store", "save">>
      [] op = "StoreMultiple" ->
            Times("store", Cardinality(DOMAIN in.docs)) \o <<"save">>
      [] op \in {"LoadByID", "Exists"} -> <<"load">>
      [] op = "LoadMultipleByIDs" -> Times("load", Len(in.ids))
      [] op = "Update" /\ svc = "ds" ->
            IF SessionLoad(d, in.id) = NoDoc THEN <<"load">>
            ELSE <<"load", "store", "save">>
      [] op = "Update" /\ svc = "cs" -> <<"store", "save">>
      [] op = "Delete" /\ svc = "ds" -> <<"delete", "save">>
      [] op = "Delete" /\ svc = "cs" ->
            IF SessionLoad(d, in.id) = NoDoc THEN <<"load">>
            ELSE <<"load", "delete", "save">>
      [] op = "DeleteMultiple" /\ svc = "ds" ->
            Times("delete", Len(in.ids)) \o <<"save">>
      [] op = "DeleteMultiple" /\ svc = "cs" ->
            LoadDeleteSteps(d, in.ids) \o <<"save">>
      [] op = "GetDatabaseStatus" -> <<"stats">>
      [] op = "CountDocuments" -> <<>>
      [] OTHER -> <<"query">>

\* Attempted trying the session again when it could not be opened
Attempted_Retries(steps, fault) ==
    IF fault = "open" THEN <<Call("open", FALSE), Call("open", FALSE)>>
    ELSE <<Call("open", TRUE)>>
         \o [k \in 1..Len(steps) |-> Call(steps[k], TRUE)]
         \o <<Call("close", TRUE)>>

\* the calls made when the first call of the kind `fault` fails
Attempted(steps, fault) ==
    IF fault = "open" THEN <<Call("open", FALSE)>>
    ELSE LET hit == {k \in 1..Len(steps) : steps[k] = fault}
             made == IF hit = {} THEN Len(steps)
                     ELSE CHOOSE k \in hit : \A j \in hit : k <= j
         IN  <<Call("open", TRUE)>>
             \o [k \in 1..made |-> Call(steps[k], steps[k] # fault)]
             \o <<Call("close", TRUE)>>

\* Init sends the create request, then opens and closes a session
InitCalls(exists, createFault, openFault) ==
    <<Call("create", CreateDatabase(exists, createFault).err = "none")>>
    \o Attempted(<<>>, openFault)

\* ServedCalls with isDatabaseEmpty running inside the session of Init
ServedCalls_Nested(op, in) ==
    CASE op = "Init" -> InitCalls(in.existed, in.createFault, in.fault)
      [] op = "InitializeWithSeeding" ->
            IF in.fault = "none" /\ in.seedData
            THEN <<Call("create", CreateDatabase(in.existed, in.createFault).err = "none"),
                   Call("open", TRUE)>>
                 \o Attempted(<<"stats">>, in.emptyFault)
                 \o <<Call("close", TRUE)>>
            ELSE InitCalls(in.existed, in.createFault, in.fault)
      [] OTHER -> Attempted(Steps(op, "ds", in, <<>>), in.fault)

\* InitializeWithSeeding runs Init and then, when asked to seed,
\* isDatabaseEmpty, which opens a session of its own
ServedCalls(op, in) ==
    CASE op = "Init" -> InitCalls(in.existed, in.createFault, in.fault)
      [] op = "InitializeWithSeeding" ->
            InitCalls(in.existed, in.createFault, in.fault)
            \o (IF in.fault = "none" /\ in.seedData
                 THEN Attempted(<<"stats">>, in.emptyFault)
                 ELSE <<>>)
      [] OTHER -> Attempted(Steps(op, "ds", in, <<>>), in.fault)

(***************************************************************************)
(* The state machine: one action per public operation.                     *)
(***************************************************************************)
\* no call has been made, or the caller has taken the last call's result
Idle == [op |-> "Idle", svc |-> "", in |-> <<>>, pre |-> <<>>, calls |-> <<>>,
         out |-> [err |-> "none", saved |-> FALSE, val |-> NoDoc]]

Init ==
    /\ db = [i \in AllIds |-> NoDoc]
    /\ hilo = 0
    /\ last = Idle
    /\ sessions = 0
    /\ created = FALSE
    /\ upd = [p \in Callers |-> UpdIdle]

\* a CRUD call: the store and the identity counter move to what the handler left
Crud(op, svc, in, r) ==
    /\ db' = r.db
    /\ hilo' = r.hilo
    /\ last' = [op |-> op, svc |-> svc, in |-> in, pre |-> db,
                calls |-> Attempted(Steps(op, svc, in, db), in.fault),
                out |-> [err |-> r.err, saved |-> r.saved, val |-> r.val]]
    /\ sessions' = Scoped(sessions, in.fault)
    /\ UNCHANGED <<created, upd>>

\* a query call: the store is left alone; the query call fails when the
\* client is at fault or the engine rejects the query
Asked(op, svc, in, r) ==
    /\ last' = [op |-> op, svc |-> svc, in |-> in, pre |-> db,
                calls |-> Attempted(Steps(op, svc, in, db),
                                    IF in.fault = "none" /\ r.err # "none"
                                    THEN "query" ELSE in.fault),
                out |-> r]
    /\ sessions' = Scoped(sessions, in.fault)
    /\ UNCHANGED <<db, hilo, created, upd>>

\* a DatabaseService call that touches no document
Served(op, in, r) ==
    /\ last' = [op |-> op, svc |-> "ds", in |-> in, pre |-> db,
                calls |-> ServedCalls(op, in), out |-> r]
    /\ sessions' = r.sessions
    /\ created' = (IF "created" \in DOMAIN r THEN r.created ELSE created)
    /\ UNCHANGED <<db, hilo, upd>>

CanGenerate(ids) == "" \in ids => hilo < MaxGen

\* a failing call is tried on representative inputs only
Faulty(fault, representative) == fault = "none" \/ representative

DSStore ==
    /\ last = Idle
    /\ \E id \in CallerIds, document \in Values, fault \in StoreFaults :
           /\ Faulty(fault, document = John30)
           /\ CanGenerate({id})
           /\ Crud("Store", "ds", [id |-> id, doc |-> document, fault |-> fault],
                   DS_Store(db, hilo, id, document, fault))

DSStoreMultiple ==
    /\ last = Idle
    /\ \E documents \in Batches, fault \in StoreFaults :
           /\ Faulty(fault, \A k \in DOMAIN documents : documents[k] = John30)
           /\ CanGenerate(DOMAIN documents)
           /\ Crud("StoreMultiple", "ds", [docs |-> documents, fault |-> fault],
                   DS_StoreMultiple(db, hilo, documents, fault))

DSLoadByID ==
    /\ last = Idle
    /\ \E id \in CallerIds, fault \in LoadFaults :
           Crud("LoadByID", "ds", [id |-> id, fault |-> fault],
                DS_LoadByID(db, hilo, id, fault))

DSLoadMultipleByIDs ==
    /\ last = Idle
    /\ \E ids \in IdLists, results \in SuppliedResults, fault \in LoadFaults :
           /\ Faulty(fault, Len(ids) <= 1)
           /\ Crud("LoadMultipleByIDs", "ds",
                   [ids |-> ids, results |-> results, fault |-> fault],
                   DS_LoadMultipleByIDs(db, hilo, ids, results, fault))

DSUpdate ==
    /\ last = Idle
    /\ \E id \in CallerIds, updates \in Updates, fault \in UpdateFaults :
           /\ Faulty(fault, updates = [age |-> 31])
           /\ Crud("Update", "ds", [id |-> id, updates |-> updates, fault |-> fault],
                DS_Update(db, hilo, id, updates, fault))

DSDelete ==
    /\ last = Idle
    /\ \E id \in AllIds, fault \in DeleteFaults :
           Crud("Delete", "ds", [id |-> id, fault |-> fault],
                DS_Delete(db, hilo, id, fault))

DSDeleteMultiple ==
    /\ last = Idle
    /\ \E ids \in IdLists, fault \in DeleteFaults :
           Crud("DeleteMultiple", "ds", [ids |-> ids, fault |-> fault],
                DS_DeleteMultiple(db, hilo, ids, fault))

DSExists ==
    /\ last = Idle
    /\ \E id \in AllIds, fault \in LoadFaults :
           Crud("Exists", "ds", [id |-> id, fault |-> fault],
                DS_Exists(db, hilo, id, fault))

CSStore ==
    /\ last = Idle
    /\ \E id \in CallerIds, document \in Values, fault \in StoreFaults :
           /\ Faulty(fault, document = John30)
           /\ CanGenerate({id})
           /\ Crud("Store", "cs", [id |-> id, doc |-> document, fault |-> fault],
                   CS_Store(db, hilo, id, document, fault))

CSStoreMultiple ==
    /\ last = Idle
    /\ \E documents \in Batches, fault \in StoreFaults :
           /\ Faulty(fault, \A k \in DOMAIN documents : documents[k] = John30)
           /\ CanGenerate(DOMAIN documents)
           /\ Crud("StoreMultiple", "cs", [docs |-> documents, fault |-> fault],
                   CS_StoreMultiple(db, hilo, documents, fault))

CSLoadByID ==
    /\ last = Idle
    /\ \E id \in CallerIds, fault \in LoadFaults :
           Crud("LoadByID", "cs", [id |-> id, fault |-> fault],
                CS_LoadByID(db, hilo, id, fault))

CSLoadMultipleByIDs ==
    /\ last = Idle
    /\ \E ids \in IdLists, fault \in LoadFaults :
           /\ Faulty(fault, Len(ids) <= 1)
           /\ Crud("LoadMultipleByIDs", "cs", [ids |-> ids, fault |-> fault],
                   CS_LoadMultipleByIDs(db, hilo, ids, fault))

CSUpdate ==
    /\ last = Idle
    /\ \E id \in CallerIds, document \in Values, fault \in StoreFaults :
           /\ Faulty(fault, document = John30)
           /\ CanGenerate({id})
           /\ Crud("Update", "cs", [id |-> id, doc |-> document, fault |-> fault],
                   CS_Update(db, hilo, id, document, fault))

CSDelete ==
    /\ last = Idle
    /\ \E id \in AllIds, fault \in LoadDeleteFaults :
           Crud("Delete", "cs", [id |-> id, fault |-> fault],
                CS_Delete(db, hilo, id, fault))

CSDeleteMultiple ==
    /\ last = Idle
    /\ \E ids \in IdLists, fault \in LoadDeleteFaults :
           Crud("DeleteMultiple", "cs", [ids |-> ids, fault |-> fault],
                CS_DeleteMultiple(db, hilo, ids, fault))

CSExists ==
    /\ last = Idle
    /\ \E id \in AllIds, fault \in LoadFaults :
           Crud("Exists", "cs", [id |-> id, fault |-> fault],
                CS_Exists(db, hilo, id, fault))

CSQuery ==
    /\ last = Idle
    /\ \E coll \in CollectionNames, options \in QueryOptionsSet, fault \in QueryFaults :
           /\ Faulty(fault, options \in HelperOptions
                            \/ (options.Skip = 0 /\ options.Take \in {0, 5000}))
           /\ Asked("Query", "cs",
                 [coll |-> coll, options |-> options, fault |-> fault],
                 CS_Query(db, coll, options, fault))

CSQueryAll ==
    /\ last = Idle
    /\ \E coll \in CollectionNames, fault \in QueryFaults :
           Asked("QueryAll", "cs", [coll |-> coll, fault |-> fault],
                 CS_QueryAll(db, coll, fault))

CSQueryByField ==
    /\ last = Idle
    /\ \E coll \in CollectionNames, fv \in FieldQueries, options \in HelperOptions, fault \in QueryFaults :
           /\ Faulty(fault, options.Skip = 0)
           /\ Asked("QueryByField", "cs",
                 [coll |-> coll, field |-> fv[1], value |-> fv[2],
                  options |-> options, fault |-> fault],
                 CS_QueryByField(db, coll, fv[1], fv[2], options, fault))

CSQueryByRange ==
    /\ last = Idle
    /\ \E coll \in CollectionNames, r \in Ranges, options \in HelperOptions, fault \in QueryFaults :
           /\ Faulty(fault, options.Skip = 0)
           /\ Asked("QueryByRange", "cs",
                 [coll |-> coll, field |-> "age", min |-> r[1], max |-> r[2],
                  options |-> options, fault |-> fault],
                 CS_QueryByRange(db, coll, "age", r[1], r[2], options, fault))

CSSearch ==
    /\ last = Idle
    /\ \E coll \in CollectionNames, term \in SearchTerms, fields \in SearchFieldLists,
          options \in HelperOptions, fault \in QueryFaults :
           /\ Faulty(fault, options.Skip = 0)
           /\ Asked("Search", "cs",
                 [coll |-> coll, term |-> term, fields |-> fields,
                  options |-> options, fault |-> fault],
                 CS_Search(db, coll, term, fields, options, fault))

FreeQuery ==
    /\ last = Idle
    /\ \E coll \in CollectionNames, options \in QueryOptionsSet, fault \in QueryFaults :
           /\ Faulty(fault, options \in HelperOptions
                            \/ (options.Skip = 0 /\ options.Take \in {0, 5000}))
           /\ Asked("Query", "free", [coll |-> coll, options |-> options, fault |-> fault],
                 Query(db, coll, options, fault))

FreeQueryAll ==
    /\ last = Idle
    /\ \E coll \in CollectionNames, fault \in QueryFaults :
           Asked("QueryAll", "free", [coll |-> coll, fault |-> fault],
                 QueryAll(db, coll, fault))

FreeQueryByField ==
    /\ last = Idle
    /\ \E coll \in CollectionNames, fv \in FieldQueries,
          options \in HelperOptions, fault \in QueryFaults :
           /\ Faulty(fault, options.Skip = 0)
           /\ Asked("QueryByField", "free",
                 [coll |-> coll, field |-> fv[1], value |-> fv[2],
                  options |-> options, fault |-> fault],
                 QueryByField(db, coll, fv[1], fv[2], options, fault))

FreeQueryByRange ==
    /\ last = Idle
    /\ \E coll \in CollectionNames, r \in Ranges,
          options \in HelperOptions, fault \in QueryFaults :
           /\ Faulty(fault, options.Skip = 0)
           /\ Asked("QueryByRange", "free",
                 [coll |-> coll, field |-> "age", min |-> r[1], max |-> r[2],
                  options |-> options, fault |-> fault],
                 QueryByRange(db, coll, "age", r[1], r[2], options, fault))

FreeSearch ==
    /\ last = Idle
    /\ \E coll \in CollectionNames, term \in SearchTerms, fields \in SearchFieldLists,
          options \in HelperOptions, fault \in QueryFaults :
           /\ Faulty(fault, options.Skip = 0)
           /\ Asked("Search", "free",
                 [coll |-> coll, term |-> term, fields |-> fields,
                  options |-> options, fault |-> fault],
                 Search(db, coll, term, fields, options, fault))

\* the caller takes the result; the next call starts from the store as left
DSInit ==
    /\ last = Idle
    /\ \E createFault \in CreateFaults, openFault \in OpenFaults :
           Served("Init", [createFault |-> createFault, fault |-> openFault,
                           existed |-> created],
                  DS_Init(created, sessions, createFault, openFault))

DSInitializeWithSeeding ==
    /\ last = Idle
    /\ \E seedData \in BOOLEAN, createFault \in CreateFaults, openFault \in OpenFaults,
          emptyFault \in OpenFaults, stats \in StatsResults :
           /\ Faulty(emptyFault, seedData /\ openFault = "none")
           /\ stats = "nil" => (seedData /\ openFault = "none" /\ emptyFault = "none")
           /\ Served("InitializeWithSeeding",
                     [seedData |-> seedData, createFault |-> createFault,
                      fault |-> openFault, emptyFault |-> emptyFault, stats |-> stats,
                      existed |-> created],
                     DS_InitializeWithSeeding(created, sessions, seedData, createFault,
                                              openFault, emptyFault, stats))

DSGetDatabaseStatus ==
    /\ last = Idle
    /\ \E openFault \in OpenFaults, stats \in StatsResults :
           /\ Faulty(openFault, stats = "value")
           /\ Served("GetDatabaseStatus", [fault |-> openFault, stats |-> stats],
                     DS_GetDatabaseStatus(sessions, openFault, stats))

DSCountDocuments ==
    /\ last = Idle
    /\ \E collection \in CollectionNames, fault \in OpenFaults :
           Served("CountDocuments", [coll |-> collection, fault |-> fault],
                  DS_CountDocuments(db, sessions, collection, fault))

CSCount ==
    /\ last = Idle
    /\ \E coll \in CollectionNames, fault \in QueryFaults :
           Asked("Count", "cs", [coll |-> coll, fault |-> fault],
                 CS_Count(db, coll, fault))

UpdateOpen(p) ==
    /\ upd[p].pc = "idle"
    /\ \E id \in {"users/1", "users/2"}, updates \in Updates :
           upd' = [upd EXCEPT ![p] = Upd_Open(id, updates)]
    /\ sessions' = OpenSession(sessions, "none")
    /\ UNCHANGED <<db, hilo, last, created>>

UpdateLoad(p) ==
    /\ upd[p].pc = "opened"
    /\ upd' = [upd EXCEPT ![p] = Upd_Load(db, upd[p])]
    /\ sessions' = IF upd'[p].pc = "done" THEN Close(sessions) ELSE sessions
    /\ UNCHANGED <<db, hilo, last, created>>

UpdateMerge(p) ==
    /\ upd[p].pc = "loaded"
    /\ upd' = [upd EXCEPT ![p] = Upd_Merge(upd[p])]
    /\ UNCHANGED <<db, hilo, last, sessions, created>>

UpdateSave(p) ==
    /\ upd[p].pc = "stored"
    /\ db' = Upd_Save(db, upd[p])
    /\ upd' = [q \in Callers |->
                  IF q = p THEN [upd[p] EXCEPT !.pc = "done"]
                  ELSE IF upd[q].pc \in {"loaded", "stored"} /\ upd[q].id = upd[p].id
                  THEN [upd[q] EXCEPT !.stale = TRUE, !.gone = FALSE]
                  ELSE upd[q]]
    /\ sessions' = Close(sessions)
    /\ UNCHANGED <<hilo, last, created>>

\* a DatabaseService.Delete by another caller, run to its commit while an
\* Update of the same id has loaded the document and has not yet committed
DeleteDuring ==
    /\ \E p \in Callers :
           /\ upd[p].pc \in {"loaded", "stored"}
           /\ db' = DS_Delete(db, hilo, upd[p].id, "none").db
           /\ upd' = [q \in Callers |->
                         IF upd[q].pc \in {"loaded", "stored"} /\ upd[q].id = upd[p].id
                         THEN [upd[q] EXCEPT !.gone = TRUE]
                         ELSE upd[q]]
    /\ UNCHANGED <<hilo, last, sessions, created>>

\* the calls that were made have all returned; the callers go on
UpdateReturn ==
    /\ \A p \in Callers : upd[p].pc \in {"idle", "done"}
    /\ \E p \in Callers : upd[p].pc = "done"
    /\ upd' = [p \in Callers |-> UpdIdle]
    /\ UNCHANGED <<db, hilo, last, sessions, created>>

AllIdle == \A p \in Callers : upd[p].pc = "idle"

Return ==
    /\ last # Idle
    /\ last' = Idle
    /\ UNCHANGED <<db, hilo, sessions, created, upd>>

Next ==
    \/ Return
    \/ DSStore \/ DSStoreMultiple \/ DSLoadByID \/ DSUpdate
    \/ DSDelete \/ DSDeleteMultiple \/ DSExists
    \/ CSStore \/ CSStoreMultiple \/ CSLoadByID \/ CSUpdate
    \/ CSDelete \/ CSDeleteMultiple \/ CSExists
    \/ CSQuery \/ CSQueryAll \/ CSQueryByField \/ CSQueryByRange \/ CSSearch
    \/ FreeQuery \/ FreeQueryAll \/ FreeQueryByField \/ FreeQueryByRange \/ FreeSearch
    \/ DSInit \/ DSInitializeWithSeeding \/ DSGetDatabaseStatus \/ DSCountDocuments
    \/ CSCount
    \/ DSLoadMultipleByIDs \/ CSLoadMultipleByIDs

Spec == Init /\ [][Next]_vars

\* a fresh store that is only ever written through the CollectionService
NextFresh ==
    \/ Return
    \/ CSStore \/ CSStoreMultiple
    \/ CSQueryAll \/ FreeQueryAll

SpecFresh == Init /\ [][NextFresh]_vars

EmptyStore == \A i \in AllIds : db[i] = NoDoc

\* one document is stored, then the callers update it at once
NextRace ==
    \/ AllIdle /\ EmptyStore /\ DSStore
    \/ AllIdle /\ Return
    \/ \E p \in Callers :
          \/ UpdateOpen(p) \/ UpdateLoad(p) \/ UpdateMerge(p) \/ UpdateSave(p)
    \/ UpdateReturn

SpecRace == Init /\ [][NextRace]_vars

\* the same, with deletes committing while the updates are under way
NextDelete ==
    \/ AllIdle /\ EmptyStore /\ DSStore
    \/ AllIdle /\ Return
    \/ \E p \in Callers :
          \/ UpdateOpen(p) \/ UpdateLoad(p) \/ UpdateMerge(p) \/ UpdateSave(p)
    \/ UpdateReturn
    \/ DeleteDuring

SpecDelete == Init /\ [][NextDelete]_vars

(***************************************************************************)
(* Properties.                                                             *)
(***************************************************************************)
Called(op, svc) == last.op = op /\ last.svc = svc
Succeeded == last # Idle /\ last.out.err = "none"
Present(d, id) == d[id] # NoDoc

LoadNow(svc, id) ==
    IF svc = "ds" THEN DS_LoadByID(db, hilo, id, "none")
    ELSE CS_LoadByID(db, hilo, id, "none")

ExistsNow(svc, id) ==
    IF svc = "ds" THEN DS_Exists(db, hilo, id, "none")
    ELSE CS_Exists(db, hilo, id, "none")

Elements(seq) == {seq[k] : k \in 1..Len(seq)}

\* C1 as stated: after a successful Store(id, doc), of either service and
\* for every id, LoadByID(id) succeeds and yields doc field for field.
C1_RoundTripEveryId ==
    (last.op = "Store" /\ Succeeded) =>
        /\ LoadNow(last.svc, last.in.id).err = "none"
        /\ LoadNow(last.svc, last.in.id).val.fields = last.in.doc

\* C1 amended: after a successful Store(id, doc) with a non-empty id, of
\* either service, LoadByID(id) succeeds and yields doc field for field.
C1_RoundTrip ==
    (last.op = "Store" /\ Succeeded /\ last.in.id # "") =>
        /\ LoadNow(last.svc, last.in.id).err = "none"
        /\ LoadNow(last.svc, last.in.id).val.fields = last.in.doc

C1_Witness ==
    /\ Called("Store", "ds") /\ Succeeded
    /\ last.in.id = "users/2" /\ last.in.doc = Jane31
    /\ Present(last.pre, "users/2")
    /\ DS_LoadByID(db, hilo, "users/2", "none").val.fields = Jane31

StoredIds == IF last.op = "StoreMultiple" THEN DOMAIN last.in.docs ELSE {last.in.id}
DeletedIds == IF last.op = "DeleteMultiple" THEN Elements(last.in.ids) ELSE {last.in.id}

\* an id comes to exist only through a successful store of that id, or as
\* the identity generated for a store with the empty id
ExistenceIsStored ==
    last # Idle =>
        \A id \in AllIds :
            (~Present(last.pre, id) /\ Present(db, id)) =>
                /\ last.op \in {"Store", "StoreMultiple", "Update"}
                /\ Succeeded
                /\ id \in StoredIds \/ (id \in GenIds /\ "" \in StoredIds)

ExistsAfterDelete ==
    (last.op \in {"Delete", "DeleteMultiple"} /\ Succeeded) =>
        \A id \in DeletedIds :
            /\ ExistsNow(last.svc, id).err = "none"
            /\ ExistsNow(last.svc, id).val = FALSE

\* C2 as stated: Exists(id) is true right after a successful Store or
\* StoreMultiple of id, for every id, and false right after a successful
\* Delete or DeleteMultiple of id.
C2_ExistsEveryId ==
    /\ (last.op \in {"Store", "StoreMultiple"} /\ Succeeded) =>
            \A id \in StoredIds :
                /\ ExistsNow(last.svc, id).err = "none"
                /\ ExistsNow(last.svc, id).val = TRUE
    /\ ExistsAfterDelete

\* C2 amended: Exists(id) is true right after a successful Store or
\* StoreMultiple of a non-empty id, false right after a successful Delete or
\* DeleteMultiple of id, and an id exists only once it was stored.
C2_Exists ==
    /\ (last.op \in {"Store", "StoreMultiple"} /\ Succeeded) =>
            \A id \in StoredIds \ {""} :
                /\ ExistsNow(last.svc, id).err = "none"
                /\ ExistsNow(last.svc, id).val = TRUE
    /\ ExistsAfterDelete
    /\ ExistenceIsStored

C2_Witness ==
    /\ Called("StoreMultiple", "cs") /\ Succeeded
    /\ DOMAIN last.in.docs = {"users/1", "users/2"}
    /\ ~Present(last.pre, "users/1")
    /\ CS_Exists(db, hilo, "users/1", "none").val = TRUE

\* C3: a successful DatabaseService.Update leaves under id the document it
\* loaded with exactly the keys of updates overwritten, and touches nothing else.
C3_UpdateMerges ==
    (Called("Update", "ds") /\ Succeeded) =>
        LET id == last.in.id
            updates == last.in.updates
        IN  /\ Present(last.pre, id)
            /\ db[id].coll = last.pre[id].coll
            /\ DOMAIN db[id].fields = Fields
            /\ \A k \in Fields :
                  db[id].fields[k] = IF k \in DOMAIN updates THEN updates[k]
                                     ELSE last.pre[id].fields[k]
            /\ \A i \in AllIds \ {id} : db[i] = last.pre[i]

C3_Witness ==
    /\ Called("Update", "ds") /\ Succeeded
    /\ last.in.updates = [age |-> 31]
    /\ last.pre[last.in.id].fields = John30
    /\ db[last.in.id].fields = John31

\* C4: DatabaseService.Update on an id that holds no document returns the
\* not-found error (when the session opens and the load succeeds), commits
\* nothing and leaves the store as it was; it returns not-found only then.
C4_UpdateNotFound ==
    Called("Update", "ds") =>
        /\ (~Present(last.pre, last.in.id) /\ last.in.fault \notin {"open", "load"}) =>
                last.out.err = "notfound"
        /\ last.out.err = "notfound" =>
                /\ ~Present(last.pre, last.in.id)
                /\ db = last.pre
                /\ ~last.out.saved
        /\ ~Present(last.pre, last.in.id) => db = last.pre

C4_Witness ==
    /\ Called("Update", "ds")
    /\ last.out.err = "notfound"
    /\ last.in.id = "users/1"
    /\ Present(db, "users/2")

(***************************************************************************)
(* Query properties.                                                       *)
(***************************************************************************)
QueryOps == {"Query", "QueryAll", "QueryByField", "QueryByRange", "Search"}
Queried == last.op \in QueryOps /\ last.out.err = "none"

\* the options value the call handed to Query: what the caller asked for
RequestedTake ==
    IF last.op = "QueryAll" THEN 1024
    ELSE IF last.in.options.nil THEN 0 ELSE last.in.options.Take
RequestedSkip ==
    IF last.op = "QueryAll" \/ last.in.options.nil THEN 0 ELSE last.in.options.Skip

EffectiveTake(t) == IF t <= 0 THEN 25 ELSE IF t > 1024 THEN 1024 ELSE t

OptionsWithTake(t) ==
    {[o EXCEPT !.Take = t] : o \in (QueryOptionsSet \cup HelperOptions) \ {NilOptions}}

SameAnswer(a, b) == a.err = b.err /\ a.rql = b.rql /\ a.res = b.res

\* C5: every successful query reports Take = 25 for a requested Take <= 0,
\* 1024 for a requested Take > 1024 and the requested Take otherwise; the
\* reported Take lies in 1..1024 and bounds the number of results; asking
\* for Take = 5000 gives the query text and envelope of Take = 1024.
C5_TakeNormalised ==
    /\ Queried =>
          /\ last.out.res.Take = EffectiveTake(RequestedTake)
          /\ last.out.res.Take \in 1..1024
          /\ Len(last.out.res.Results) <= last.out.res.Take
    /\ last = Idle =>
          \A coll \in CollectionNames, o \in OptionsWithTake(5000) :
              /\ SameAnswer(CS_Query(db, coll, o, "none"),
                            CS_Query(db, coll, [o EXCEPT !.Take = 1024], "none"))
              /\ SameAnswer(Query(db, coll, o, "none"),
                            Query(db, coll, [o EXCEPT !.Take = 1024], "none"))

C5_Witness ==
    /\ Called("QueryByField", "cs") /\ Queried
    /\ ~last.in.options.nil /\ last.in.options.Take = 5000
    /\ last.out.res.Take = 1024
    /\ Len(last.out.res.Results) = 1

\* C6: CollectionService.DeleteMultiple(ids) returns no error when the
\* session opens and the loads and the commit succeed, whichever ids are
\* absent; on success no id of the list holds a document and every other
\* id holds what it held; on failure the store is as it was.
C6_DeleteMultipleSkipsAbsent ==
    Called("DeleteMultiple", "cs") =>
        /\ last.in.fault = "none" => last.out.err = "none"
        /\ last.out.err = "none" =>
              \A i \in AllIds :
                  db[i] = IF i \in Elements(last.in.ids) THEN NoDoc ELSE last.pre[i]
        /\ last.out.err # "none" => db = last.pre

C6_Witness ==
    /\ Called("DeleteMultiple", "cs") /\ Succeeded
    /\ last.in.ids = <<"users/1", "users/2">>
    /\ Present(last.pre, "users/1") /\ ~Present(last.pre, "users/2")
    /\ Present(last.pre, GenId(1)) /\ db[GenId(1)] = last.pre[GenId(1)]
    /\ ~Present(db, "users/1")

\* C7: CollectionService.Delete(id) on an id that holds no document returns
\* the not-found error (when the session opens and the load succeeds) and
\* commits nothing; on success the id held a document and exactly that
\* document is gone; on any failure the store is as it was.
C7_DeleteNotFound ==
    Called("Delete", "cs") =>
        /\ (~Present(last.pre, last.in.id) /\ last.in.fault \notin {"open", "load"}) =>
              last.out.err = "notfound"
        /\ last.out.err = "notfound" =>
              ~Present(last.pre, last.in.id) /\ ~last.out.saved
        /\ last.out.err = "none" =>
              /\ Present(last.pre, last.in.id)
              /\ db = [last.pre EXCEPT ![last.in.id] = NoDoc]
        /\ last.out.err # "none" => db = last.pre

C7_Witness ==
    /\ Called("Delete", "cs")
    /\ last.out.err = "notfound"
    /\ last.in.id = "users/2"
    /\ Present(db, "users/1")

Rows == last.out.res.Results

\* C8: every row of a successful QueryByField(f, v) is a stored document of
\* the queried collection whose field f equals v, and every row of a
\* successful QueryByRange(f, lo, hi) is one with lo <= f <= hi, whatever
\* options the caller passed.
C8_FilterSound ==
    /\ (last.op = "QueryByField" /\ Queried) =>
          \A k \in 1..Len(Rows) :
              /\ Rows[k].coll = last.in.coll
              /\ db[Rows[k].id] = [coll |-> Rows[k].coll, fields |-> Rows[k].fields]
              /\ Rows[k].fields[last.in.field] = last.in.value
    /\ (last.op = "QueryByRange" /\ Queried) =>
          \A k \in 1..Len(Rows) :
              /\ Rows[k].coll = last.in.coll
              /\ db[Rows[k].id] = [coll |-> Rows[k].coll, fields |-> Rows[k].fields]
              /\ last.in.min <= Rows[k].fields[last.in.field]
              /\ Rows[k].fields[last.in.field] <= last.in.max

C8_Witness ==
    /\ Called("QueryByField", "free") /\ Queried
    /\ last.in.options.WhereClause = "age = $p"
    /\ last.in.field = "name" /\ last.in.value = "Jane"
    /\ Len(Rows) = 1
    /\ \E i \in AllIds : Present(db, i) /\ db[i].fields = John31

\* Under SpecFresh every document was stored through a CollectionService and
\* none was deleted; Store and StoreMultiple never read the service's
\* collection name, so the stored documents are the same whichever name the
\* storing service was bound to.
StoredThrough(coll) == {i \in AllIds : Present(db, i)}

\* C9: with every document stored through a CollectionService bound to
\* collection name C and none deleted, QueryAll on that service (and the
\* free QueryAll for C) returns exactly the stored documents and
\* HasMore = false.
C9_QueryAllComplete ==
    (last.op = "QueryAll" /\ Queried) =>
        /\ {Rows[k].id : k \in 1..Len(Rows)} = StoredThrough(last.in.coll)
        /\ Len(Rows) = Cardinality(StoredThrough(last.in.coll))
        /\ \A k \in 1..Len(Rows) : Rows[k].fields = db[Rows[k].id].fields
        /\ last.out.res.HasMore = FALSE

\* C10: in every successful query TotalCount is the length of Results, Skip
\* and Take are the requested Skip and the normalised Take, and HasMore is
\* true exactly when the number of results equals the normalised Take.
C10_Envelope ==
    Queried =>
        /\ last.out.res.TotalCount = Len(Rows)
        /\ last.out.res.Skip = RequestedSkip
        /\ last.out.res.Take = EffectiveTake(RequestedTake)
        /\ last.out.res.HasMore = (Len(Rows) = EffectiveTake(RequestedTake))

\* a page that exactly fills Take, with no further row, reported HasMore
C10_Witness ==
    /\ Called("Query", "cs") /\ Queried
    /\ last.in.coll = TypeCollection
    /\ last.in.options.Skip = 0 /\ last.in.options.Take = 2
    /\ last.in.options.WhereClause = ""
    /\ Cardinality({i \in AllIds : Present(db, i)}) = 2
    /\ Len(Rows) = 2
    /\ last.out.res.HasMore = TRUE

(***************************************************************************)
(* Query text.                                                             *)
(***************************************************************************)
\* the query text the claim describes
Shape(name, where, orderBy, desc, skip, take) ==
    "from @all_docs where @metadata.'@collection' = '" \o name \o "'"
    \o (IF where = "" THEN "" ELSE " AND (" \o where \o ")")
    \o (IF orderBy = "" THEN ""
        ELSE " ORDER BY " \o orderBy \o (IF desc THEN " DESC" ELSE ""))
    \o " LIMIT " \o ToString(skip) \o ", " \o ToString(take)

\* a query call that got as far as building its text
Built == last.op \in QueryOps /\ last.out.err # "open"

\* C11: the text Query sends is the collection filter on the given name,
\* then " AND (WhereClause)" iff WhereClause is not empty, then
\* " ORDER BY OrderBy" iff OrderBy is not empty, with " DESC" iff OrderDesc
\* is also set, then " LIMIT Skip, Take" with the raw Skip and the
\* normalised Take, in every case; the helpers send the text of the options
\* they hand to Query.
C11_QueryShape ==
    /\ (Built /\ last.op = "Query") =>
          LET o == IF last.in.options.nil THEN ZeroOptions ELSE last.in.options
          IN  last.out.rql = Shape(last.in.coll, o.WhereClause, o.OrderBy, o.OrderDesc,
                                   o.Skip, EffectiveTake(o.Take))
    /\ (Built /\ last.op # "QueryAll" /\ ~last.in.options.nil) =>
          last.out.rql = Shape(last.in.coll, last.out.opts.WhereClause,
                               last.in.options.OrderBy, last.in.options.OrderDesc,
                               last.in.options.Skip,
                               EffectiveTake(last.in.options.Take))
    /\ (Built /\ last.op = "QueryAll") =>
          last.out.rql = Shape(last.in.coll, "", "", FALSE, 0, 1024)

\* OrderDesc without OrderBy adds nothing, and the LIMIT clause is there
C11_Witness ==
    /\ Called("Query", "cs") /\ Queried
    /\ last.in.options.OrderDesc /\ last.in.options.OrderBy = ""
    /\ last.in.options.Take = 2
    /\ last.out.rql = "from @all_docs where @metadata.'@collection' = 'Users' LIMIT 0, 2"

(***************************************************************************)
(* Sessions, initialisation, status and counting.                          *)
(***************************************************************************)
\* C12: whenever a call has returned, with or without an error, no session
\* is open.
C12_SessionsReleased == sessions = 0

\* an error return taken after the session was opened
C12_Witness ==
    /\ Called("Update", "ds")
    /\ last.in.fault = "store" /\ last.out.err = "store"
    /\ sessions = 0

(***************************************************************************)
(* Concurrent updates.                                                     *)
(***************************************************************************)
\* C13: when two Update calls on the same id have both returned success
\* and the later one to commit had loaded before the earlier one
\* committed, both had loaded the same document and the store holds that
\* document merged with the later call's updates only.
C13_LostUpdate ==
    \A p, q \in Callers :
        (/\ p # q
         /\ upd[p].pc = "done" /\ upd[p].err = "none"
         /\ upd[q].pc = "done" /\ upd[q].err = "none"
         /\ upd[p].id = upd[q].id
         /\ upd[q].stale) =>
            /\ upd[p].loaded = upd[q].loaded
            /\ db[upd[q].id].fields = Merge(upd[q].loaded.fields, upd[q].updates)

\* both calls succeeded and the age written by the first is gone
C13_Witness ==
    /\ upd["a"].pc = "done" /\ upd["a"].err = "none" /\ upd["a"].updates = [age |-> 31]
    /\ upd["b"].pc = "done" /\ upd["b"].err = "none" /\ upd["b"].updates = [name |-> "John"]
    /\ upd["a"].id = "users/1" /\ upd["b"].id = "users/1"
    /\ upd["b"].stale
    /\ upd["a"].loaded.fields = John30
    /\ db["users/1"].fields = John30

(***************************************************************************)
(* Batches.                                                                *)
(***************************************************************************)
\* C14: StoreMultiple, of either service, that fails to store a document
\* of the batch returns the error without committing and leaves the store
\* as it was; on any error the store is as it was; on success it has
\* committed and every document of the batch is in the store, the one with
\* the empty key under a generated identity.
C14_StoreMultipleAtomic ==
    last.op = "StoreMultiple" =>
        /\ (last.in.fault = "store" /\ DOMAIN last.in.docs # {}) =>
              last.out.err = "store"
        /\ last.out.err # "none" => (db = last.pre /\ ~last.out.saved)
        /\ last.out.err = "none" =>
              /\ last.out.saved
              /\ \A id \in DOMAIN last.in.docs \ {""} :
                    db[id].fields = last.in.docs[id]
              /\ "" \in DOMAIN last.in.docs =>
                    \E g \in GenIds : /\ ~Present(last.pre, g)
                                      /\ db[g].fields = last.in.docs[""]
              /\ \A i \in AllIds \ (DOMAIN last.in.docs \cup GenIds) :
                    db[i] = last.pre[i]

C14_Witness ==
    /\ Called("StoreMultiple", "ds")
    /\ last.in.fault = "store" /\ last.out.err = "store"
    /\ DOMAIN last.in.docs = {"users/1", "users/2"}
    /\ ~Present(db, "users/1") /\ ~Present(db, "users/2")

(***************************************************************************)
(* Initialisation.                                                         *)
(***************************************************************************)
\* C15: Init returns an error exactly when the confirmatory session cannot
\* be opened, whatever the create request answered; a database that
\* existed is still there afterwards with its documents, and a create
\* request that got through leaves the database in place.
C15_InitTolerant ==
    Called("Init", "ds") =>
        /\ (last.out.err # "none") <=> (last.in.fault = "open")
        /\ last.in.existed => created
        /\ last.in.createFault = "none" => created
        /\ created = (last.in.existed \/ last.in.createFault = "none")
        /\ db = last.pre

\* a second Init: the create request is refused, the call succeeds
C15_Witness ==
    /\ Called("Init", "ds")
    /\ last.in.existed /\ last.in.createFault = "none"
    /\ last.out.logged = "conflict"
    /\ last.out.err = "none"
    /\ created
    /\ \E i \in AllIds : Present(db, i)
\* C16: InitializeWithSeeding returns an error exactly when Init fails,
\* that is when the confirmatory session cannot be opened; a failed
\* emptiness check is swallowed; no document is stored, changed or removed.
C16_SeedingSwallows ==
    Called("InitializeWithSeeding", "ds") =>
        /\ (last.out.err # "none") <=> (last.in.fault = "open")
        /\ (last.in.seedData /\ last.in.fault = "none" /\ last.in.emptyFault = "open") =>
              (last.out.checked /\ last.out.err = "none")
        /\ last.out.checked = (last.in.seedData /\ last.in.fault = "none")
        /\ db = last.pre

C16_Witness ==
    /\ Called("InitializeWithSeeding", "ds")
    /\ last.in.seedData /\ last.in.emptyFault = "open"
    /\ last.out.checked /\ last.out.err = "none"
    /\ \E i \in AllIds : Present(db, i)
(***************************************************************************)
(* Counting and status.                                                    *)
(***************************************************************************)
\* C17 as stated: CountDocuments returns zero and no error, whatever the
\* collection, the store and the connection.
C17_CountDocumentsNeverFails ==
    Called("CountDocuments", "ds") =>
        (last.out.val = 0 /\ last.out.err = "none")

\* C17 amended: CountDocuments returns zero whatever the collection and
\* the store hold, and returns an error exactly when its session cannot
\* be opened.
C17_CountDocumentsStub ==
    Called("CountDocuments", "ds") =>
        /\ last.out.val = 0
        /\ (last.out.err # "none") <=> (last.in.fault = "open")
        /\ db = last.pre

C17_Witness ==
    /\ Called("CountDocuments", "ds")
    /\ last.in.coll = TypeCollection
    /\ Cardinality({i \in AllIds : Present(db, i) /\ db[i].coll = TypeCollection}) = 2
    /\ last.out.val = 0 /\ last.out.err = "none"
HasZero(status, key) == key \in DOMAIN status /\ status[key] = 0

\* C18: GetDatabaseStatus with a session that opens returns no error and a
\* mapping with the configured database name, status "connected" and the
\* document and index counts zero; with a session that does not open it
\* returns the error and a mapping with status "disconnected".
C18_StatusCounts ==
    Called("GetDatabaseStatus", "ds") =>
        /\ last.in.fault # "open" =>
              /\ last.out.err = "none"
              /\ last.out.status.database_name = DatabaseName
              /\ last.out.status.status = "connected"
              /\ HasZero(last.out.status, "document_count")
              /\ HasZero(last.out.status, "index_count")
        /\ last.in.fault = "open" =>
              /\ last.out.err = "open"
              /\ last.out.status.status = "disconnected"
\* the documents of a collection, by the collection tag they carry
Tagged(coll) == {i \in AllIds : Present(db, i) /\ db[i].coll = coll}

\* the rows of a collection with one document more than the largest page
LargeCollection == [k \in 1..(MaxTake + 1) |-> k]

SearchNoFields == last.op = "Search" /\ last.in.fields = <<>>

\* what Query and QueryAll of the same service answer on the store as it is
QueryOf(svc, coll, options, fault) ==
    IF svc = "cs" THEN CS_Query(db, coll, options, fault)
    ELSE Query(db, coll, options, fault)

QueryAllOf(svc, coll) ==
    IF svc = "cs" THEN CS_QueryAll(db, coll, "none") ELSE QueryAll(db, coll, "none")

\* C20 as stated: for every options value, Search with an empty field list
\* sends a query with no WHERE fragment and returns the results QueryAll
\* returns on the same collection.
C20_SearchIsQueryAll ==
    (SearchNoFields /\ Queried) =>
        /\ last.out.rql = Shape(last.in.coll, "", last.out.opts.OrderBy,
                                last.out.opts.OrderDesc, last.out.opts.Skip,
                                EffectiveTake(last.out.opts.Take))
        /\ Rows = QueryAllOf(last.svc, last.in.coll).res.Results

\* C20: Search with an empty field list adds no search condition and no
\* parameter: it answers exactly as Query does with the options the caller
\* passed, the caller's own WhereClause, Skip and Take included. With nil
\* options its query has no WHERE fragment and is limited to 25 rows where
\* QueryAll's is limited to 1024, so it returns QueryAll's results on a
\* collection of at most 25 documents and the first 25 rows on a larger one.
C20_SearchEmptyIsQuery ==
    SearchNoFields =>
        /\ SameAnswer(last.out,
                      QueryOf(last.svc, last.in.coll, last.in.options, last.in.fault))
        /\ (Queried /\ ~last.in.options.nil) =>
               /\ last.out.opts.WhereClause = last.in.options.WhereClause
               /\ last.out.opts.Parameters = last.in.options.Parameters
        /\ (Queried /\ last.in.options.nil) =>
               /\ last.out.rql = Shape(last.in.coll, "", "", FALSE, 0, DefaultTake)
               /\ Rows = QueryAllOf(last.svc, last.in.coll).res.Results
               /\ Len(Page(ParseQuery(last.out.rql), LargeCollection)) = DefaultTake
               /\ Len(Page(ParseQuery(QueryAllOf(last.svc, last.in.coll).rql),
                           LargeCollection)) = QueryAllTake

C20_Witness ==
    /\ Called("Search", "free") /\ SearchNoFields /\ Queried
    /\ last.in.options.nil
    /\ Cardinality(Tagged(last.in.coll)) = 2
    /\ Len(Rows) = 2
    /\ Rows = QueryAll(db, last.in.coll, "none").res.Results

\* the call just made met no fault of the client
Clean == last # Idle /\ last.in.fault = "none"

\* the id the call was given held no document when the call was made
Absent == last.pre[last.in.id] = NoDoc

\* the entries of an id list that hold a document
Existing(d, ids) == {k \in 1..Len(ids) : d[ids[k]] # NoDoc}

Asks(name) == {k \in 1..Len(last.calls) : last.calls[k].call = name}

\* the positions of the trace where a session or document call failed
Failures == {k \in 1..Len(last.calls) :
                ~last.calls[k].ok /\ last.calls[k].call # "create"}

\* the error a handler returns for a failed client call
Surfaced(call) == IF last.op = "Count" THEN "count" ELSE call

DocumentCall == last.op \notin {"Idle", "Init", "InitializeWithSeeding"}

\* C22: a connectivity error is surfaced, never retried, and has no
\* effect.  Every CRUD and query operation asks for a session exactly once;
\* when that fails it returns the error having made no other call and
\* leaves the store as it was.  A load, store, query or commit that fails
\* is asked once, is the last call before the session is closed, and its
\* error is returned with the store unchanged.
C22_ConnectivitySurfaced ==
    DocumentCall =>
        /\ Cardinality(Asks("open")) = 1
        /\ last.in.fault = "open" =>
              /\ last.calls = <<Call("open", FALSE)>>
              /\ last.out.err = Surfaced("open")
              /\ db = last.pre
        /\ \A k \in Failures :
              /\ Failures = {k}
              /\ last.out.err = Surfaced(last.calls[k].call)
              /\ db = last.pre
              /\ k = 1 \/ (k = Len(last.calls) - 1
                            /\ last.calls[Len(last.calls)].call = "close")
        /\ last.out.err \in {"open", "load", "store", "save", "query", "count"} =>
              Failures # {}

C22_Witness ==
    /\ Called("StoreMultiple", "ds")
    /\ last.in.fault = "open"
    /\ Cardinality(DOMAIN last.in.docs) = 2
    /\ \E i \in AllIds : Present(last.pre, i)
    /\ last.calls = <<Call("open", FALSE)>>
    /\ last.out.err = "open" /\ db = last.pre

\* the sessions held after the first k calls of the trace
Held(k) ==
    Cardinality({j \in 1..k : last.calls[j].call = "open" /\ last.calls[j].ok})
    - Cardinality({j \in 1..k : last.calls[j].call = "close"})

ThroughCollection(d, op, in) ==
    CASE op = "Query" -> CS_Query(d, in.coll, in.options, in.fault)
      [] op = "QueryAll" -> CS_QueryAll(d, in.coll, in.fault)
      [] op = "QueryByField" ->
            CS_QueryByField(d, in.coll, in.field, in.value, in.options, in.fault)
      [] op = "QueryByRange" ->
            CS_QueryByRange(d, in.coll, in.field, in.min, in.max, in.options, in.fault)
      [] op = "Search" ->
            CS_Search(d, in.coll, in.term, in.fields, in.options, in.fault)

\* the same call made through the free function with the collection name
ThroughFunction(d, op, in) ==
    CASE op = "Query" -> Query(d, in.coll, in.options, in.fault)
      [] op = "QueryAll" -> QueryAll(d, in.coll, in.fault)
      [] op = "QueryByField" ->
            QueryByField(d, in.coll, in.field, in.value, in.options, in.fault)
      [] op = "QueryByRange" ->
            QueryByRange(d, in.coll, in.field, in.min, in.max, in.options, in.fault)
      [] op = "Search" ->
            Search(d, in.coll, in.term, in.fields, in.options, in.fault)

\* C24: the two query implementations are equivalent.  For every collection
\* name, options value (nil included) and store, a query made through the
\* CollectionService and the same query made through the free function
\* send the same query text, bind the same parameters, leave the options
\* object in the same state and return the same error and envelope; so for
\* Query, QueryAll, QueryByField, QueryByRange and Search.
C24_QueryEquivalent ==
    last.op \in QueryOps =>
        /\ last.out = ThroughCollection(db, last.op, last.in)
        /\ last.out = ThroughFunction(db, last.op, last.in)

C24_Witness ==
    /\ Called("QueryByRange", "free") /\ Queried
    /\ ~last.in.options.nil /\ last.in.options.Take = 5000
    /\ last.in.options.OrderBy = "age"
    /\ Len(Rows) >= 1
    /\ last.out.params = [minValue |-> last.in.min, maxValue |-> last.in.max]
    /\ last.out = ThroughCollection(db, last.op, last.in)

\* a Search call over one or two fields
SearchFields == last.op = "Search" /\ last.in.fields # <<>>

\* the clause the description gives for one field and for two
SearchClause(f) ==
    IF Len(f) = 1 THEN "(search(" \o f[1] \o ", $searchTerm0))"
    ELSE "(search(" \o f[1] \o ", $searchTerm0) OR search("
         \o f[2] \o ", $searchTerm1))"

SearchKeys(f) == IF Len(f) = 1 THEN {"searchTerm0"} ELSE {"searchTerm0", "searchTerm1"}

\* the parameters the caller passed
Passed == IF last.in.options.nil THEN <<>> ELSE last.in.options.Parameters

\* the documents of the collection the engine matches: the term is found in
\* one of the listed fields (the lower-cased name)
Hits == {i \in Tagged(last.in.coll) :
            \E k \in 1..Len(last.in.fields) :
                /\ last.in.fields[k] = "name"
                /\ Lower(db[i].fields.name) = last.in.term}

WithOptions == last.op \in QueryOps \ {"QueryAll"} /\ ~last.in.options.nil

\* the clause and the parameter keys each helper writes
HelperClause ==
    CASE last.op = "QueryByField" -> last.in.field \o " = $value"
      [] last.op = "QueryByRange" ->
            last.in.field \o " >= $minValue AND " \o last.in.field \o " <= $maxValue"
      [] last.op = "Search" /\ last.in.fields # <<>> -> SearchClause(last.in.fields)
      [] OTHER -> last.in.options.WhereClause

HelperKeys ==
    CASE last.op = "QueryByField" -> [value |-> last.in.value]
      [] last.op = "QueryByRange" ->
            [minValue |-> last.in.min, maxValue |-> last.in.max]
      [] last.op = "Search" ->
            [k \in (IF last.in.fields = <<>> THEN {} ELSE SearchKeys(last.in.fields))
                |-> last.in.term]
      [] OTHER -> <<>>

\* what every query path leaves alone, and what the helpers write
OptionsFrame ==
    /\ last.out.opts.Skip = last.in.options.Skip
    /\ last.out.opts.OrderBy = last.in.options.OrderBy
    /\ last.out.opts.OrderDesc = last.in.options.OrderDesc
    /\ last.out.opts.IncludeTotal = last.in.options.IncludeTotal
    /\ last.out.opts.WhereClause = HelperClause
    /\ DOMAIN last.out.opts.Parameters =
          DOMAIN last.in.options.Parameters \cup DOMAIN HelperKeys
    /\ \A k \in DOMAIN last.out.opts.Parameters :
          last.out.opts.Parameters[k] =
              (IF k \in DOMAIN HelperKeys THEN HelperKeys[k]
               ELSE last.in.options.Parameters[k])

\* C26 as stated: the helpers write WhereClause and their parameter keys,
\* nothing else changes, and every query path replaces Take by its
\* normalised value.
C26_OptionsEffect ==
    WithOptions =>
        /\ OptionsFrame
        /\ last.out.opts.Take = EffectiveTake(last.in.options.Take)

\* C26: on a caller's options object QueryByField and QueryByRange always
\* overwrite WhereClause and set value, or minValue and maxValue, in
\* Parameters; Search overwrites WhereClause only for a non-empty field
\* list and sets the searchTermN keys; no entry of Parameters is removed;
\* Skip, OrderBy, OrderDesc and IncludeTotal are left unchanged.  Take is
\* replaced by its normalised value once the session has been opened, and
\* left as passed when opening the session fails.
C26_OptionsEffectOnceOpen ==
    WithOptions =>
        /\ OptionsFrame
        /\ last.out.opts.Take =
              (IF last.in.fault = "open" THEN last.in.options.Take
               ELSE EffectiveTake(last.in.options.Take))

C26_Witness ==
    /\ Called("QueryByRange", "free") /\ Queried /\ WithOptions
    /\ last.in.options.Take = 5000 /\ last.out.opts.Take = 1024
    /\ last.in.options.WhereClause = ""
    /\ last.out.opts.WhereClause = "age >= $minValue AND age <= $maxValue"
    /\ last.out.opts.Parameters = [minValue |-> last.in.min, maxValue |-> last.in.max]
    /\ last.out.opts.Skip = MaxSkip /\ last.out.opts.OrderBy = "age"

\* the caller's collection before the call: empty for the CollectionService,
\* which returns a slice of its own
Supplied == IF last.svc = "ds" THEN last.in.results ELSE <<>>

\* the documents under the listed ids, in list order, absent ones left out
Listed ==
    SelectSeq([k \in 1..Len(last.in.ids) |-> last.pre[last.in.ids[k]]],
              LAMBDA x : x # NoDoc)

\* C27: LoadMultipleByIDs loads the ids one by one in a single session and
\* returns the loaded documents in the order of the id list, skipping the
\* ids that hold no document (DatabaseService appends them to the caller's
\* collection): as many results as list entries whose id exists, no error
\* for an absent id; a load error aborts the call with an error and no
\* results.  The store is left as it was.
C27_LoadMultiple ==
    last.op = "LoadMultipleByIDs" =>
        /\ db = last.pre
        /\ Cardinality(Asks("open")) = 1
        /\ last.in.fault = "none" =>
              /\ last.out.err = "none"
              /\ last.out.val = Supplied \o Listed
              /\ Len(last.out.val) - Len(Supplied)
                    = Cardinality(Existing(last.pre, last.in.ids))
              /\ Cardinality(Asks("load")) = Len(last.in.ids)
        /\ (last.in.fault = "load" /\ last.in.ids # <<>>) =>
              /\ last.out.err = "load"
              /\ last.out.val = Supplied
        /\ last.in.fault = "open" =>
              (last.out.err = "open" /\ last.out.val = Supplied)

C27_Witness ==
    /\ Called("LoadMultipleByIDs", "ds") /\ Clean
    /\ last.in.ids = <<"users/1", "users/2">>
    /\ Present(last.pre, "users/2") /\ ~Present(last.pre, "users/1")
    /\ last.in.results = <<MkDoc(Jane31)>>
    /\ last.out.val = <<MkDoc(Jane31), last.pre["users/2"]>>

ReadOps == QueryOps \cup {"LoadByID", "LoadMultipleByIDs", "Exists",
                          "CountDocuments", "Count", "GetDatabaseStatus"}

\* C28: the read-only operations (LoadByID, LoadMultipleByIDs, Exists,
\* CountDocuments, Count, GetDatabaseStatus and the query functions) never
\* store, delete or commit, and leave every document as it was, on success
\* and on error.
C28_ReadOnly ==
    last.op \in ReadOps =>
        /\ db = last.pre
        /\ Asks("save") = {} /\ Asks("store") = {} /\ Asks("delete") = {}
        /\ "saved" \in DOMAIN last.out => ~last.out.saved

C28_Witness ==
    /\ Called("LoadByID", "cs") /\ Clean /\ Absent
    /\ last.in.id = "users/1"
    /\ \E i \in AllIds : Present(last.pre, i)
    /\ db = last.pre /\ last.out.val = NoDoc

\* the step of p that commits, and the step of p that loads
Commits(p) == upd[p].pc = "stored" /\ upd'[p].pc = "done"
Loads(p) == upd[p].pc = "opened" /\ upd'[p].pc # "opened"

\* C29 as stated: an Update whose id was deleted after it loaded the
\* document and before it commits does not create the document again.
C29_UpdateNeverCreates ==
    [][\A p \in Callers :
          (Commits(p) /\ db[upd[p].id] = NoDoc) => db'[upd[p].id] = NoDoc]_vars

\* C29: Update creates no document for an id that holds none when it loads
\* (it returns not-found and writes nothing), but its commit is not
\* conditional: it writes the document it loaded, merged with the updates,
\* whatever the store holds by then, so a document deleted after the load
\* and before the commit exists again after the commit.
C29_UpdateWritesLoaded ==
    [][\A p \in Callers :
          /\ (Loads(p) /\ db[upd[p].id] = NoDoc) =>
                (upd'[p].pc = "done" /\ upd'[p].err = "notfound" /\ db' = db)
          /\ (upd[p].pc \in {"loaded", "stored"}) =>
                (upd[p].gone <=> db[upd[p].id] = NoDoc)
          /\ Commits(p) =>
                /\ upd'[p].err = "none"
                /\ db'[upd[p].id] # NoDoc
                /\ db'[upd[p].id] =
                      [upd[p].loaded EXCEPT !.fields = Merge(@, upd[p].updates)]
                /\ \A i \in AllIds \ {upd[p].id} : db'[i] = db[i]]_vars

\* the update has returned success on an id that was deleted when it
\* committed, and the document is there again
C29_Witness ==
    /\ upd["a"].pc = "done" /\ upd["a"].err = "none" /\ upd["a"].gone
    /\ upd["a"].id = "users/1" /\ upd["a"].updates = [age |-> 31]
    /\ upd["a"].loaded.fields = John30
    /\ upd["b"].pc = "idle"
    /\ db["users/1"] = MkDoc(John31)

\* the options of the follow-up query: the same query, Skip moved on by the
\* normalised Take
NextPageOptions ==
    IF last.op = "QueryAll"
    THEN [ZeroOptions EXCEPT !.Skip = last.out.res.Take, !.Take = last.out.res.Take]
    ELSE IF last.in.options.nil
    THEN [ZeroOptions EXCEPT !.WhereClause = HelperClause,
                             !.Parameters = last.out.params,
                             !.Skip = last.out.res.Take,
                             !.Take = last.out.res.Take]
    ELSE [last.out.opts EXCEPT !.Skip = @ + last.out.res.Take]

NextPage == QueryOf(last.svc, last.in.coll, NextPageOptions, "none")

\* C30: HasMore = false is sound.  When a successful query reports
\* HasMore = false and nothing is written in between, the page holds fewer
\* rows than the normalised Take and the follow-up query, with Skip
\* increased by the normalised Take, succeeds and returns no results.
C30_HasMoreFalseSound ==
    (Queried /\ ~last.out.res.HasMore) =>
        /\ Len(Rows) < last.out.res.Take
        /\ NextPage.err = "none"
        /\ NextPage.res.Skip = last.out.res.Skip + last.out.res.Take
        /\ NextPage.res.Results = <<>>

C30_Witness ==
    /\ Called("Query", "free") /\ Queried /\ WithOptions
    /\ last.in.options.Skip = 1 /\ last.in.options.Take = 2
    /\ Cardinality(Tagged(last.in.coll)) = 2
    /\ Len(Rows) = 1
    /\ ~last.out.res.HasMore
    /\ NextPage.res.Results = <<>>

====
